---------------------------- MODULE Spec2Model ----------------------------
(***************************************************************************)
(* Model of the Starlark core: the AST validator (syntax/validate.rs),     *)
(* the tuple value type (values/types/tuple.rs) and the bytecode profiler  *)
(* (eval/runtime/bc_profile.rs).                                           *)
(*                                                                         *)
(* The validator functions are pure: each has a specification whose Init   *)
(* draws the input from a bounded set and whose single action applies the  *)
(* function and stores its result.                                         *)
(***************************************************************************)
EXTENDS Integers, Sequences, FiniteSets, TLC

VARIABLES
    callee,     \* check_call: the callee expression f
    args,       \* check_call: the argument sequence
    callRes,    \* check_call: the returned anyhow::Result<Expr>
    parameters, \* check_def: the parameter list
    defRes,     \* check_def: the returned anyhow::Result<Stmt>
    stmt,       \* validate_break_continue: the statement tree
    loopRes,    \* validate_break_continue: the returned anyhow::Result<()>
    heap,       \* tuple: the allocated tuples, by address
    tupRes,     \* tuple: the last tuple operation and what it returned
    mode,       \* BcProfile.data: which BcProfileDataMode variant it is
    bc,         \* the BcProfileData of BcProfileDataMode::Bc
    pairs,      \* the BcPairsProfileData of BcProfileDataMode::BcPairs
    clock,      \* the last reading of Instant::now()
    panicked,   \* the profiler hit unreachable!()
    hist,       \* history: the opcodes given to before_instr since the enable
    ret,        \* what the last call on the profiler returned
    dest,       \* write_csv: whether the destination file was touched
    module,     \* comprehensions: the module being compiled
    phase,      \* comprehensions: "source", "compiled" or "frozen"
    pc,         \* comprehensions: the next module-level assignment to run
    globals,    \* comprehensions: the values of the module bindings
    compr,      \* comprehensions: the compiled comprehension of the def
    instrs,     \* comprehensions: the instructions of the def
    defc,       \* write_bc: the DefCompiled to write
    written     \* write_bc: the instructions in the BcWriter

vars == <<callee, args, callRes, parameters, defRes, stmt, loopRes, heap, tupRes,
          mode, bc, pairs, clock, panicked, hist, ret, dest,
          module, phase, pc, globals, compr, instrs, defc, written>>

(***************************************************************************)
(* Bounds of the model.                                                    *)
(***************************************************************************)
MaxArgs == 4
MaxParams == 4
\* The largest number of nodes of a statement tree.
MaxNodes == 5
\* The largest length of a tuple constructed initially.
MaxLen == 2
\* The largest multiplier passed to mul (multipliers range over -1..MaxRep).
MaxRep == 2
\* The number of opcodes of the instruction set (BcOpcode::COUNT).
OpcodeCount == 2
\* The largest number of before_instr calls in one profiling session.
MaxCalls == 4
\* The latest reading of the clock.
MaxTime == 3
\* The largest number of `if` clauses of a comprehension.
MaxConds == 1
\* The largest number of module-level assignments after the def.
MaxAssigns == 2
\* The largest number of parameters of a compiled def.
MaxDefParams == 3
\* The largest number of instructions of one default or type expression.
MaxExprInstrs == 2

\* Identifiers used for named arguments and parameters.
Names == {"a", "b"}
\* Placeholder for the name of a variant that carries none.
NoName == "-"

\* The sequences over S of length at most n.
SeqUpTo(S, n) == UNION {[1..k -> S] : k \in 0..n}

(***************************************************************************)
(* Expr::check_call                                                        *)
(***************************************************************************)

\* enum ArgsStage, in its derived Ord order.
Positional == 0
Named == 1
Args == 2
Kwargs == 3

\* enum Argument: the expression payloads do not influence validation.
Arguments ==
    {[tag |-> "Positional", name |-> NoName]}
    \cup {[tag |-> "Named", name |-> n] : n \in Names}
    \cup {[tag |-> "ArgsArray", name |-> NoName],
          [tag |-> "KWArgsDict", name |-> NoName]}

Callees == {"f", "g"}

\* A result that has not been produced yet.
Pending == [ok |-> FALSE, err |-> "pending", at |-> 0, span |-> "none",
            f |-> NoName, node |-> <<>>]

\* Err(Diagnostic::add_span(msg, span, codemap))
Failure(msg, i, sp) == [ok |-> FALSE, err |-> msg, at |-> i, span |-> sp,
                        f |-> NoName, node |-> <<>>]

\* Ok(Expr::Call(box f, args))  /  Ok(Stmt::Def(name, parameters, ..))
Success(f, xs) == [ok |-> TRUE, err |-> "none", at |-> 0, span |-> "none",
                   f |-> f, node |-> xs]

\* The loop state of check_call before the first argument.
CallStart == [stage |-> Positional, named_args |-> {}, err |-> "none", span |-> "none"]

CallFail(st, msg, sp) == [st EXCEPT !.err = msg, !.span = sp]

\* A body of the loop that tests a repeated name before the stage.
CheckCallArgRepeatedFirst(st, arg) ==
    CASE arg.tag = "Positional" ->
            IF st.stage # Positional
            THEN CallFail(st, "PositionalThenNonPositional", "arg")
            ELSE st
      [] arg.tag = "Named" ->
            IF arg.name \in st.named_args
            THEN CallFail(st, "RepeatedNamed", "name")
            ELSE IF st.stage > Named
            THEN CallFail(st, "NamedArgumentAfterStars", "arg")
            ELSE [st EXCEPT !.stage = Named,
                            !.named_args = st.named_args \cup {arg.name}]
      [] arg.tag = "ArgsArray" ->
            IF st.stage > Named
            THEN CallFail(st, "ArgsArrayAfterArgsOrKwargs", "arg")
            ELSE [st EXCEPT !.stage = Args]
      [] arg.tag = "KWArgsDict" ->
            IF st.stage = Kwargs
            THEN CallFail(st, "MultipleKwargs", "arg")
            ELSE [st EXCEPT !.stage = Kwargs]

\* A body of the loop that omits the distinct-names check.
CheckCallArgNoDistinct(st, arg) ==
    CASE arg.tag = "Positional" ->
            IF st.stage # Positional
            THEN CallFail(st, "PositionalThenNonPositional", "arg")
            ELSE st
      [] arg.tag = "Named" ->
            IF st.stage > Named
            THEN CallFail(st, "NamedArgumentAfterStars", "arg")
            ELSE [st EXCEPT !.stage = Named]
      [] arg.tag = "ArgsArray" ->
            IF st.stage > Named
            THEN CallFail(st, "ArgsArrayAfterArgsOrKwargs", "arg")
            ELSE [st EXCEPT !.stage = Args]
      [] arg.tag = "KWArgsDict" ->
            IF st.stage = Kwargs
            THEN CallFail(st, "MultipleKwargs", "arg")
            ELSE [st EXCEPT !.stage = Kwargs]

\* One iteration of `for arg in &args { match &arg.node { .. } }`.
CheckCallArg(st, arg) ==
    CASE arg.tag = "Positional" ->
            IF st.stage # Positional
            THEN CallFail(st, "PositionalThenNonPositional", "arg")
            ELSE st
      [] arg.tag = "Named" ->
            IF st.stage > Named
            THEN CallFail(st, "NamedArgumentAfterStars", "arg")
            ELSE IF arg.name \in st.named_args
            THEN CallFail(st, "RepeatedNamed", "name")
            ELSE [st EXCEPT !.stage = Named,
                            !.named_args = st.named_args \cup {arg.name}]
      [] arg.tag = "ArgsArray" ->
            IF st.stage > Named
            THEN CallFail(st, "ArgsArrayAfterArgsOrKwargs", "arg")
            ELSE [st EXCEPT !.stage = Args]
      [] arg.tag = "KWArgsDict" ->
            IF st.stage = Kwargs
            THEN CallFail(st, "MultipleKwargs", "arg")
            ELSE [st EXCEPT !.stage = Kwargs]

\* The loop from argument i on: returns at the first error.
RECURSIVE CheckCallFrom(_, _, _, _)
CheckCallFrom(f, xs, i, st) ==
    IF i > Len(xs)
    THEN Success(f, xs)
    ELSE LET nx == CheckCallArg(st, xs[i])
         IN  IF nx.err # "none"
             THEN Failure(nx.err, i, nx.span)
             ELSE CheckCallFrom(f, xs, i + 1, nx)

check_call(f, xs) == CheckCallFrom(f, xs, 1, CallStart)

(***************************************************************************)
(* Stmt::check_def                                                         *)
(***************************************************************************)

\* enum Parameter: type annotations and default expressions do not
\* influence validation.
Parameters ==
    {[kind |-> k, name |-> n] :
        k \in {"Normal", "WithDefaultValue", "Args", "KWArgs"}, n \in Names}
    \cup {[kind |-> "NoArgs", name |-> NoName]}

\* The loop state of check_def before the first parameter.
DefStart == [argset |-> {}, seen_args |-> FALSE, seen_kwargs |-> FALSE,
             seen_optional |-> FALSE, err |-> "none"]

DefFail(st, msg) == [st EXCEPT !.err = msg]

\* A test_param_name that never reports a duplicate.
test_param_name_NoCheck(st, n) ==
    [st EXCEPT !.argset = st.argset \cup {n}]

\* fn test_param_name: fails on a name already in argset, else inserts it.
test_param_name(st, n) ==
    IF n \in st.argset
    THEN DefFail(st, "DuplicateParameterName")
    ELSE [st EXCEPT !.argset = st.argset \cup {n}]

\* A body of the loop that tests the name before the ordering.
CheckDefParamNameFirst(st, p) ==
    IF p.kind # "NoArgs" /\ p.name \in st.argset
    THEN DefFail(st, "DuplicateParameterName")
    ELSE CASE p.kind = "Normal" ->
                 IF st.seen_kwargs \/ st.seen_optional
                 THEN DefFail(st, "PositionalThenNonPositional")
                 ELSE test_param_name(st, p.name)
           [] p.kind = "WithDefaultValue" ->
                 IF st.seen_kwargs
                 THEN DefFail(st, "DefaultParameterAfterStars")
                 ELSE test_param_name([st EXCEPT !.seen_optional = TRUE], p.name)
           [] p.kind = "NoArgs" ->
                 IF st.seen_args \/ st.seen_kwargs
                 THEN DefFail(st, "ArgsParameterAfterStars")
                 ELSE [st EXCEPT !.seen_args = TRUE]
           [] p.kind = "Args" ->
                 IF st.seen_args \/ st.seen_kwargs
                 THEN DefFail(st, "ArgsParameterAfterStars")
                 ELSE test_param_name([st EXCEPT !.seen_args = TRUE], p.name)
           [] p.kind = "KWArgs" ->
                 IF st.seen_kwargs
                 THEN DefFail(st, "MultipleKwargs")
                 ELSE test_param_name([st EXCEPT !.seen_kwargs = TRUE], p.name)

\* A body of the loop that also refuses a Normal parameter after `*`/`*args`.
CheckDefParamStrict(st, p) ==
    CASE p.kind = "Normal" ->
            IF st.seen_kwargs \/ st.seen_optional \/ st.seen_args
            THEN DefFail(st, "PositionalThenNonPositional")
            ELSE test_param_name(st, p.name)
      [] p.kind = "WithDefaultValue" ->
            IF st.seen_kwargs
            THEN DefFail(st, "DefaultParameterAfterStars")
            ELSE test_param_name([st EXCEPT !.seen_optional = TRUE], p.name)
      [] p.kind = "NoArgs" ->
            IF st.seen_args \/ st.seen_kwargs
            THEN DefFail(st, "ArgsParameterAfterStars")
            ELSE [st EXCEPT !.seen_args = TRUE]
      [] p.kind = "Args" ->
            IF st.seen_args \/ st.seen_kwargs
            THEN DefFail(st, "ArgsParameterAfterStars")
            ELSE test_param_name([st EXCEPT !.seen_args = TRUE], p.name)
      [] p.kind = "KWArgs" ->
            IF st.seen_kwargs
            THEN DefFail(st, "MultipleKwargs")
            ELSE test_param_name([st EXCEPT !.seen_kwargs = TRUE], p.name)

\* One iteration of `for arg in parameters.iter() { match &arg.node { .. } }`.
CheckDefParam(st, p) ==
    CASE p.kind = "Normal" ->
            IF st.seen_kwargs \/ st.seen_optional
            THEN DefFail(st, "PositionalThenNonPositional")
            ELSE test_param_name(st, p.name)
      [] p.kind = "WithDefaultValue" ->
            IF st.seen_kwargs
            THEN DefFail(st, "DefaultParameterAfterStars")
            ELSE test_param_name([st EXCEPT !.seen_optional = TRUE], p.name)
      [] p.kind = "NoArgs" ->
            IF st.seen_args \/ st.seen_kwargs
            THEN DefFail(st, "ArgsParameterAfterStars")
            ELSE [st EXCEPT !.seen_args = TRUE]
      [] p.kind = "Args" ->
            IF st.seen_args \/ st.seen_kwargs
            THEN DefFail(st, "ArgsParameterAfterStars")
            ELSE test_param_name([st EXCEPT !.seen_args = TRUE], p.name)
      [] p.kind = "KWArgs" ->
            IF st.seen_kwargs
            THEN DefFail(st, "MultipleKwargs")
            ELSE test_param_name([st EXCEPT !.seen_kwargs = TRUE], p.name)

\* The loop from parameter i on: returns at the first error, located at the
\* offending parameter (arg.span in every error path).
RECURSIVE CheckDefFrom(_, _, _)
CheckDefFrom(ps, i, st) ==
    IF i > Len(ps)
    THEN Success("def", ps)
    ELSE LET nx == CheckDefParam(st, ps[i])
         IN  IF nx.err # "none"
             THEN Failure(nx.err, i, "arg")
             ELSE CheckDefFrom(ps, i + 1, nx)

check_def(ps) == CheckDefFrom(ps, 1, DefStart)

(***************************************************************************)
(* Stmt::validate_break_continue                                           *)
(***************************************************************************)

\* enum Stmt, reduced to what the traversal distinguishes: a statement is
\* [kind, body] with body the sequence of its child statements.  Pass stands
\* for every statement without child statements other than break/continue,
\* If for a statement with one child statement, Statements for a block.
LeafKinds == {"Break", "Continue", "Pass"}
UnaryKinds == {"For", "Def", "If"}

RECURSIVE StmtsOfSize(_), BlocksOfSize(_)
\* The statement trees with exactly n nodes.
StmtsOfSize(n) ==
    IF n = 1
    THEN {[kind |-> k, body |-> <<>>] : k \in LeafKinds}
    ELSE {[kind |-> k, body |-> <<b>>] : k \in UnaryKinds, b \in StmtsOfSize(n - 1)}
         \cup {[kind |-> "Statements", body |-> bs] :
                    bs \in {b \in BlocksOfSize(n - 1) : Len(b) >= 2}}

\* The sequences of statement trees with exactly m nodes in total.
BlocksOfSize(m) ==
    IF m = 0
    THEN {<<>>}
    ELSE UNION {{<<t>> \o r : t \in StmtsOfSize(k), r \in BlocksOfSize(m - k)} :
                    k \in 1..m}

Stmts == UNION {StmtsOfSize(n) : n \in 1..MaxNodes}

\* Ok(()) and Err(Diagnostic::add_span(e, stmt.span, codemap)); a span is
\* the path of child indices from the root to the statement.
LoopOk == [err |-> "none", span |-> <<>>]
LoopErr(e, path) == [err |-> e, span |-> path]
LoopPending == [err |-> "pending", span |-> <<>>]

RECURSIVE inside_for(_, _), outside_for(_, _), visit_stmt_result(_, _, _, _)

\* Stmt::visit_stmt_result(f) with f = inside_for (inside) or outside_for:
\* applies f to the child statements from the i-th on, in order, and returns
\* the first error.
visit_stmt_result(s, inside, path, i) ==
    IF i > Len(s.body)
    THEN LoopOk
    ELSE LET r == IF inside
                  THEN inside_for(s.body[i], Append(path, i))
                  ELSE outside_for(s.body[i], Append(path, i))
         IN  IF r.err # "none"
             THEN r
             ELSE visit_stmt_result(s, inside, path, i + 1)

\* An inside_for that keeps the loop context across a def.
inside_for_ThroughDef(s, path) == visit_stmt_result(s, TRUE, path, 1)

\* fn inside_for: inside a for, only a def disallows break/continue.
inside_for(s, path) ==
    IF s.kind = "Def"
    THEN outside_for(s.body[1], Append(path, 1))
    ELSE visit_stmt_result(s, TRUE, path, 1)

\* fn outside_for: outside a for, a continue/break is an error.
outside_for(s, path) ==
    CASE s.kind = "For" -> inside_for(s.body[1], Append(path, 1))
      [] s.kind = "Break" -> LoopErr("BreakOutsideLoop", path)
      [] s.kind = "Continue" -> LoopErr("ContinueOutsideLoop", path)
      [] OTHER -> visit_stmt_result(s, FALSE, path, 1)

validate_break_continue(s) == outside_for(s, <<>>)

(***************************************************************************)
(* TupleGen<V>: Tuple<'v> (mutable heap) and FrozenTuple                   *)
(***************************************************************************)

\* A Value: an integer (n its value), a list or a faulty value (n unused),
\* or a pointer to a tuple (n its address in the heap).  `frozen` is the
\* pointer's frozen tag, what Value::unpack_frozen tests.
IntValue(n) == [ty |-> "int", n |-> n, frozen |-> TRUE]
ListValue == [ty |-> "list", n |-> 0, frozen |-> FALSE]
FaultyValue == [ty |-> "faulty", n |-> 0, frozen |-> FALSE]
TupleValue(a, fr) == [ty |-> "tuple", n |-> a, frozen |-> fr]

\* The values stored in tuples: a frozen tuple holds FrozenValues only.
FrozenElems == {IntValue(1), IntValue(2)}
Elems == FrozenElems \cup {ListValue, FaultyValue}

\* struct TupleGen<V> { len, content }, with the representation it was
\* allocated as.
TupleObj(repr, xs) == [repr |-> repr, len |-> Len(xs), content |-> xs]

TupleObjs ==
    {TupleObj("Tuple", xs) : xs \in SeqUpTo(Elems, MaxLen)}
    \cup {TupleObj("FrozenTuple", xs) : xs \in SeqUpTo(FrozenElems, MaxLen)}

\* The Value that points to the tuple at address a.
ValueOf(h, a) == TupleValue(a, h[a].repr = "FrozenTuple")

\* The values an operation can receive as `other`.
Others(h) ==
    {IntValue(n) : n \in -1..MaxRep} \cup {ListValue, FaultyValue}
    \cup {ValueOf(h, a) : a \in 1..Len(h)}

\* anyhow::Result of the operations: Ok(bool), Ok(u64), Ok(Value) or Err.
OkBool(b) == [ok |-> TRUE, kind |-> "bool", b |-> b, n |-> 0, err |-> "none"]
OkHash(x) == [ok |-> TRUE, kind |-> "u64", b |-> FALSE, n |-> x, err |-> "none"]
OkValue(a) == [ok |-> TRUE, kind |-> "value", b |-> FALSE, n |-> a, err |-> "none"]
Err(e) == [ok |-> FALSE, kind |-> "err", b |-> FALSE, n |-> 0, err |-> e]

\* Value::ptr_eq: the two values are the same pointer (or the same inline
\* integer).
ptr_eq(x, y) == x = y

\* Value::equals of a tuple element with another value: identical values are
\* equal without a comparison; otherwise integers and lists compare without
\* failure and a faulty value fails to compare.
ElemEquals(x, y) ==
    IF ptr_eq(x, y)
    THEN OkBool(TRUE)
    ELSE IF x.ty = "faulty"
    THEN Err("EqualsFailed")
    ELSE OkBool(x.ty = y.ty /\ x.n = y.n)

\* The state of DefaultHasher is kept modulo HashMod.
HashMod == 1009
HashMul == 31
\* DefaultHasher::new()
HasherNew == 7
\* Hasher::write_u64: mixes the value into the state, order-sensitively.
write_u64(st, x) == (st * HashMul + x + 1) % HashMod
\* Hasher::finish
HasherFinish(st) == st

\* Value::get_hash of a tuple element: an integer hashes to itself, a list
\* is not hashable, a faulty value fails.
ElemHash(x) ==
    CASE x.ty = "int" -> OkHash(x.n)
      [] x.ty = "list" -> Err("NotHashableValue")
      [] OTHER -> Err("HashFailed")

\* Option<&Tuple>
None == [some |-> FALSE, len |-> 0, content |-> <<>>]
Some(obj) == [some |-> TRUE, len |-> obj.len, content |-> obj.content]

\* value.downcast_ref::<T>(): the object behind the pointer has type T.
downcast_ref(h, v, T) ==
    IF v.ty = "tuple" /\ h[v.n].repr = T THEN Some(h[v.n]) ELSE None

\* A from_value that only looks for the mutable-heap representation.
from_value_MutableOnly(h, v) == downcast_ref(h, v, "Tuple")

\* Tuple::from_value
from_value(h, v) ==
    IF v.frozen
    THEN downcast_ref(h, v, "FrozenTuple")
    ELSE downcast_ref(h, v, "Tuple")

\* TupleGen::content: the `len` slots that follow the header.
content(t) == SubSeq(t.content, 1, t.len)

\* TupleGen::len
len(t) == Len(content(t))

\* comparison::equals_slice(xs, ys, f) with f = |x, y| x.equals(*y), from
\* index i on: false on different lengths, else the first pair that fails
\* or is unequal decides.
RECURSIVE EqualsSliceFrom(_, _, _)
EqualsSliceFrom(xs, ys, i) ==
    IF i > Len(xs)
    THEN OkBool(TRUE)
    ELSE LET r == ElemEquals(xs[i], ys[i])
         IN  IF ~r.ok THEN r
             ELSE IF ~r.b THEN OkBool(FALSE)
             ELSE EqualsSliceFrom(xs, ys, i + 1)

equals_slice(xs, ys) ==
    IF Len(xs) # Len(ys) THEN OkBool(FALSE) ELSE EqualsSliceFrom(xs, ys, 1)

\* TupleGen::equals
equals(h, self, other) ==
    LET o == from_value(h, other)
    IN  IF ~o.some
        THEN OkBool(FALSE)
        ELSE equals_slice(content(self), content(o))

\* The loop of get_hash from element i on, with hasher state st.
RECURSIVE GetHashFrom(_, _, _)
GetHashFrom(xs, i, st) ==
    IF i > Len(xs)
    THEN OkHash(HasherFinish(st))
    ELSE LET r == ElemHash(xs[i])
         IN  IF ~r.ok THEN r
             ELSE GetHashFrom(xs, i + 1, write_u64(st, r.n))

\* A get_hash that skips the elements it cannot hash.
RECURSIVE GetHashSkipFrom(_, _, _)
GetHashSkipFrom(xs, i, st) ==
    IF i > Len(xs)
    THEN OkHash(HasherFinish(st))
    ELSE LET r == ElemHash(xs[i])
         IN  IF ~r.ok THEN GetHashSkipFrom(xs, i + 1, st)
             ELSE GetHashSkipFrom(xs, i + 1, write_u64(st, r.n))

get_hash_SkipUnhashable(self) == GetHashSkipFrom(content(self), 1, HasherNew)

\* TupleGen::get_hash
get_hash(self) == GetHashFrom(content(self), 1, HasherNew)

\* The loop of is_in from element i on.
RECURSIVE IsInFrom(_, _, _)
IsInFrom(xs, other, i) ==
    IF i > Len(xs)
    THEN OkBool(FALSE)
    ELSE LET r == ElemEquals(xs[i], other)
         IN  IF ~r.ok THEN r
             ELSE IF r.b THEN OkBool(TRUE)
             ELSE IsInFrom(xs, other, i + 1)

\* An is_in that treats a failed comparison as unequal.
RECURSIVE IsInIgnoreFrom(_, _, _)
IsInIgnoreFrom(xs, other, i) ==
    IF i > Len(xs)
    THEN OkBool(FALSE)
    ELSE LET r == ElemEquals(xs[i], other)
         IN  IF r.ok /\ r.b THEN OkBool(TRUE)
             ELSE IsInIgnoreFrom(xs, other, i + 1)

is_in_IgnoreFailure(self, other) == IsInIgnoreFrom(content(self), other, 1)

\* TupleGen::is_in
is_in(self, other) == IsInFrom(content(self), other, 1)

\* Heap::alloc_tuple: a new Tuple<'v> at the next free address.
alloc_tuple(h, xs) == Append(h, TupleObj("Tuple", xs))

\* A concatenation that takes the right operand first.
AddContentSwapped(self, o) == content(o) \o content(self)

\* The Vec built by add: self's elements, then other's.
AddContent(self, o) == content(self) \o content(o)

\* value.unpack_int()
unpack_int(v) ==
    IF v.ty = "int" THEN [some |-> TRUE, l |-> v.n] ELSE [some |-> FALSE, l |-> 0]

\* A repetition that runs the loop once more (0..=l).
RECURSIVE MulContentInclusiveFrom(_, _)
MulContentInclusiveFrom(xs, l) ==
    IF l < 0 THEN <<>> ELSE MulContentInclusiveFrom(xs, l - 1) \o xs

MulContentInclusive(self, l) == MulContentInclusiveFrom(content(self), l)

\* The Vec built by mul: `for _i in 0..l { result.extend(content) }`.
RECURSIVE MulContentFrom(_, _)
MulContentFrom(xs, l) ==
    IF l <= 0 THEN <<>> ELSE MulContentFrom(xs, l - 1) \o xs

\* A repetition that takes a negative multiplier for its absolute value.
MulContentAbsolute(self, l) == MulContentFrom(content(self), IF l < 0 THEN 0 - l ELSE l)

MulContent(self, l) == MulContentFrom(content(self), l)

\* The operation record before any operation ran.
NoOp == [op |-> "none", self |-> 0, other |-> IntValue(0), r |-> Err("none")]
OpRecord(op, a, v, r) == [op |-> op, self |-> a, other |-> v, r |-> r]

(***************************************************************************)
(* BcProfile                                                               *)
(***************************************************************************)

\* enum BcOpcode, by number.
Opcodes == 0..(OpcodeCount - 1)

\* Option<(BcOpcode, Instant)> and Option<BcOpcode>
NoLast == [some |-> FALSE, opcode |-> 0, time |-> 0]
SomeLast(opcode, now) == [some |-> TRUE, opcode |-> opcode, time |-> now]

\* BcInstrStat::default()
BcInstrStatDefault == [count |-> 0, total_time |-> 0]

\* impl Default for BcProfileData
BcProfileDataDefault ==
    [last |-> NoLast, by_instr |-> [o \in Opcodes |-> BcInstrStatDefault]]

\* #[derive(Default)] BcPairsProfileData: no last opcode, an empty HashMap.
BcPairsProfileDataDefault == [last |-> NoLast, by_instr |-> <<>>]

\* Instant::saturating_duration_since
saturating_duration_since(now, earlier) == IF now >= earlier THEN now - earlier ELSE 0

\* A before_instr that attributes the sample to the opcode about to run.
BcProfileData_before_instr_Current(data, opcode, now) ==
    IF data.last.some
    THEN LET last_duration == saturating_duration_since(now, data.last.time)
         IN  [last |-> SomeLast(opcode, now),
              by_instr |-> [data.by_instr EXCEPT
                    ![opcode] = [count |-> @.count + 1,
                                 total_time |-> @.total_time + last_duration]]]
    ELSE [data EXCEPT !.last = SomeLast(opcode, now)]

\* BcProfileData::before_instr
BcProfileData_before_instr(data, opcode, now) ==
    IF data.last.some
    THEN LET last_opcode == data.last.opcode
             last_duration == saturating_duration_since(now, data.last.time)
         IN  [last |-> SomeLast(opcode, now),
              by_instr |-> [data.by_instr EXCEPT
                    ![last_opcode] = [count |-> @.count + 1,
                                      total_time |-> @.total_time + last_duration]]]
    ELSE [data EXCEPT !.last = SomeLast(opcode, now)]

\* HashMap::entry(key).or_default().count += 1
EntryIncrement(map, key) ==
    IF key \in DOMAIN map
    THEN [map EXCEPT ![key] = [count |-> @.count + 1]]
    ELSE [k \in DOMAIN map \cup {key} |->
            IF k = key THEN [count |-> 1] ELSE map[k]]

\* A before_instr that records the pair as (current, previous).
BcPairsProfileData_before_instr_Reversed(data, opcode) ==
    [last |-> SomeLast(opcode, 0),
     by_instr |-> IF data.last.some
                  THEN EntryIncrement(data.by_instr, <<opcode, data.last.opcode>>)
                  ELSE data.by_instr]

\* BcPairsProfileData::before_instr
BcPairsProfileData_before_instr(data, opcode) ==
    [last |-> SomeLast(opcode, 0),
     by_instr |-> IF data.last.some
                  THEN EntryIncrement(data.by_instr, <<data.last.opcode, opcode>>)
                  ELSE data.by_instr]

\* The BcProfile as one value: the variant of `data` and its payload.
Profile(m, b, p) == [mode |-> m, bc |-> b, pairs |-> p]

\* An enable_1 that keeps the data when per-opcode mode is already active.
enable_1_KeepActive(self) ==
    IF self.mode = "Bc"
    THEN self
    ELSE Profile("Bc", BcProfileDataDefault, BcPairsProfileDataDefault)

\* BcProfile::enable_1: self.data = BcProfileDataMode::Bc(Default::default())
enable_1(self) == Profile("Bc", BcProfileDataDefault, BcPairsProfileDataDefault)

\* BcProfile::enable_2
enable_2(self) == Profile("BcPairs", BcProfileDataDefault, BcPairsProfileDataDefault)

\* BcProfile::enabled
enabled(self) == self.mode \in {"Bc", "BcPairs"}

\* BcInstrStat::avg_time, in nanoseconds (u64 division).
avg_time(st) == IF st.count = 0 THEN 0 ELSE st.total_time \div st.count

RECURSIVE SumStats(_, _)
\* impl Sum<&BcInstrStat> for BcInstrStat, over rows i.. of the vector.
SumStats(rows, i) ==
    IF i > Len(rows)
    THEN BcInstrStatDefault
    ELSE LET rest == SumStats(rows, i + 1)
         IN  [count |-> rows[i].count + rest.count,
              total_time |-> rows[i].total_time + rest.total_time]

\* A row handed to the CsvWriter.  label is "TOTAL", "opcode" (o0 is the
\* opcode) or "pair" (o0, o1 are the opcodes); frac is Count / Total in
\* thousandths.
Row(label, o0, o1, count, total_time, avg, frac) ==
    [label |-> label, o0 |-> o0, o1 |-> o1, count |-> count,
     total_time |-> total_time, avg |-> avg, frac |-> frac]

\* A per-opcode key that sorts by ascending count.
BcKeyLessAscending(x, y) == x.count < y.count

\* The key of BcProfileData::gen_csv, u64::MAX - st.count: x sorts strictly
\* before y.
BcKeyLess(x, y) == x.count > y.count

\* A per-pair key without the opcodes.
PairsKeyLessCountOnly(x, y) == x.count > y.count

\* The key of BcPairsProfileData::gen_csv, (u64::MAX - st.count, *opcodes).
PairsKeyLess(x, y) ==
    \/ x.count > y.count
    \/ /\ x.count = y.count
       /\ \/ x.o0 < y.o0
          \/ x.o0 = y.o0 /\ x.o1 < y.o1

KeyLess(x, y, pairKey) == IF pairKey THEN PairsKeyLess(x, y) ELSE BcKeyLess(x, y)

RECURSIVE InsertSorted(_, _, _)
\* x placed after every element whose key is not greater (the sort is stable).
InsertSorted(sorted, x, pairKey) ==
    IF sorted = <<>>
    THEN <<x>>
    ELSE IF KeyLess(x, Head(sorted), pairKey)
    THEN <<x>> \o sorted
    ELSE <<Head(sorted)>> \o InsertSorted(Tail(sorted), x, pairKey)

RECURSIVE SortFrom(_, _, _, _)
SortFrom(rows, i, acc, pairKey) ==
    IF i > Len(rows)
    THEN acc
    ELSE SortFrom(rows, i + 1, InsertSorted(acc, rows[i], pairKey), pairKey)

\* slice::sort_by_key
sort_by_key(rows, pairKey) == SortFrom(rows, 1, <<>>, pairKey)

\* CsvWriter::new(header) with the rows written to it.
Csv(header, rows) == [header |-> header, rows |-> rows]

\* BcProfileData::gen_csv
BcProfileData_gen_csv(data) ==
    LET enumerated == [i \in 1..OpcodeCount |->
                          Row("opcode", i - 1, 0, data.by_instr[i - 1].count,
                              data.by_instr[i - 1].total_time,
                              avg_time(data.by_instr[i - 1]), 0)]
        by_instr == sort_by_key(enumerated, FALSE)
        total == SumStats(by_instr, 1)
    IN  Csv(<<"Opcode", "Count", "Total time (s)", "Avg time (ns)">>,
            <<Row("TOTAL", 0, 0, total.count, total.total_time, avg_time(total), 0)>>
                \o by_instr)

\* format!("{:.3}", count as f64 / count_total as f64), as a number of
\* thousandths: rounded to nearest, an exact half to even.
Format3(count, count_total) ==
    LET q == (count * 1000) \div count_total
        r == (count * 1000) % count_total
    IN  IF 2 * r > count_total THEN q + 1
        ELSE IF 2 * r < count_total THEN q
        ELSE IF q % 2 = 0 THEN q ELSE q + 1

\* The orders in which a HashMap with key set S can be iterated.
IterationOrders(S) ==
    {f \in [1..Cardinality(S) -> S] : \A i, j \in 1..Cardinality(S) : i # j => f[i] # f[j]}

\* BcPairsProfileData::gen_csv; `order` is the order in which the HashMap
\* yields its entries.
BcPairsProfileData_gen_csv(data, order) ==
    LET collected == [i \in 1..Len(order) |->
                         Row("pair", order[i][1], order[i][2],
                             data.by_instr[order[i]].count, 0, 0, 0)]
        by_instr == sort_by_key(collected, TRUE)
        count_total == SumStats(by_instr, 1).count
    IN  Csv(<<"Opcode[0]", "Opcode[1]", "Count", "Count / Total">>,
            [i \in 1..Len(by_instr) |->
                [by_instr[i] EXCEPT !.frac = Format3(by_instr[i].count, count_total)]])

\* What a call on the profiler returned.
NoCsv == Csv(<<>>, <<>>)
RetNone == [kind |-> "none", b |-> FALSE, csv |-> NoCsv, err |-> "none"]
RetUnit == [kind |-> "unit", b |-> FALSE, csv |-> NoCsv, err |-> "none"]
RetBool(b) == [kind |-> "bool", b |-> b, csv |-> NoCsv, err |-> "none"]
RetCsv(c) == [kind |-> "csv", b |-> FALSE, csv |-> c, err |-> "none"]
RetErr(e) == [kind |-> "err", b |-> FALSE, csv |-> NoCsv, err |-> e]
RetPanic == [kind |-> "panic", b |-> FALSE, csv |-> NoCsv, err |-> "unreachable"]

\* The last call on the profiler: the operation and what it returned.
Called(op, val) == [op |-> op, val |-> val]

\* A gen_csv that reports an empty per-opcode table while Disabled.
BcProfile_gen_csv_NoError(self, order) ==
    CASE self.mode = "Bc" -> RetCsv(BcProfileData_gen_csv(self.bc))
      [] self.mode = "BcPairs" -> RetCsv(BcPairsProfileData_gen_csv(self.pairs, order))
      [] OTHER -> RetCsv(BcProfileData_gen_csv(BcProfileDataDefault))

\* BcProfile::gen_csv
BcProfile_gen_csv(self, order) ==
    CASE self.mode = "Bc" -> RetCsv(BcProfileData_gen_csv(self.bc))
      [] self.mode = "BcPairs" -> RetCsv(BcPairsProfileData_gen_csv(self.pairs, order))
      [] OTHER -> RetErr("BcProfilingNotEnabled")

(***************************************************************************)
(* Compilation of a comprehension `[x for x in ITER if COND ...]` that is  *)
(* the body of a def, followed by module-level assignments NAME = VALUE.   *)
(* The def is compiled when its statement runs, before the assignments;    *)
(* the module is frozen after the last assignment.                         *)
(***************************************************************************)

\* Expressions of the comprehension: the literals [], {}, True, False, the
\* local y and the module bindings C and D.
EmptyListLit == [kind |-> "EmptyList", name |-> NoName]
EmptyDictLit == [kind |-> "EmptyDict", name |-> NoName]
TrueLit == [kind |-> "True", name |-> NoName]
FalseLit == [kind |-> "False", name |-> NoName]
Local(n) == [kind |-> "Local", name |-> n]
Global(n) == [kind |-> "Global", name |-> n]
\* A constant held by the compiled code.
Const(v) == [kind |-> "Const", name |-> v]

GlobalNames == {"C", "D"}
\* The values a module-level assignment binds.
ModuleValues == {"True", "False", "EmptyDict", "NonEmptyList"}
Unassigned == "unassigned"
NoGlobals == [n \in GlobalNames |-> Unassigned]

IterExprs == {EmptyListLit, EmptyDictLit, Local("y"), Global("D")}
CondExprs == {TrueLit, FalseLit, Local("y"), Global("C")}
Assignments == {[name |-> n, value |-> v] : n \in GlobalNames, v \in ModuleValues}

Module(iter, conds, assigns) == [iter |-> iter, conds |-> conds, assigns |-> assigns]
Modules ==
    {Module(i, c, a) : i \in IterExprs, c \in SeqUpTo(CondExprs, MaxConds),
                       a \in SeqUpTo(Assignments, MaxAssigns)}

\* The programs and the expected opcodes of the tests.
test_no_loop_if_top_collection_is_empty ==
    [instrs |-> <<"ListNew", "Return">>,
     module |-> Module(EmptyListLit, <<>>, <<>>)]

test_no_loop_if_top_collection_is_empty_on_freeze ==
    [instrs |-> <<"ListNew", "Return">>,
     module |-> Module(Global("D"), <<>>, <<[name |-> "D", value |-> "EmptyDict"]>>)]

test_if_true_clause ==
    [instrs |-> <<"ListNew", "LoadLocal", "ForLoop", "StoreLocal", "LoadLocal",
                  "ComprListAppend", "Continue", "Return">>,
     module |-> Module(Local("y"), <<TrueLit>>, <<>>)]

test_if_true_clause_on_freeze ==
    [instrs |-> <<"ListNew", "LoadLocal", "ForLoop", "StoreLocal", "LoadLocal",
                  "ComprListAppend", "Continue", "Return">>,
     module |-> Module(Local("y"), <<Global("C")>>,
                       <<[name |-> "C", value |-> "False"],
                         [name |-> "C", value |-> "True"]>>)]

\* The constant-folding oracle: what is known of expression e when the
\* module bindings are g.  A literal is its value; a binding is its value
\* once it is assigned; a local is never known.
Resolve(e, g) ==
    CASE e.kind = "EmptyList" -> Const("EmptyList")
      [] e.kind = "EmptyDict" -> Const("EmptyDict")
      [] e.kind = "True" -> Const("True")
      [] e.kind = "False" -> Const("False")
      [] e.kind = "Global" /\ g[e.name] # Unassigned -> Const(g[e.name])
      [] OTHER -> e

IsEmptyContainer(e) == e.kind = "Const" /\ e.name \in {"EmptyList", "EmptyDict"}
IsTrue(e) == e.kind = "Const" /\ e.name = "True"
IsFalse(e) == e.kind = "Const" /\ e.name = "False"

\* The compiled comprehension: no loop at all, or a loop with the clauses
\* that are still tested; skip is set when a clause is known to be false.
NoCompr == [kind |-> "None", iter |-> EmptyListLit, conds |-> <<>>, skip |-> FALSE]
ComprEmpty == [kind |-> "Empty", iter |-> EmptyListLit, conds |-> <<>>, skip |-> FALSE]
ComprLoop(iter, conds, skip) ==
    [kind |-> "Loop", iter |-> iter, conds |-> conds, skip |-> skip]

RECURSIVE OptimizeConds(_, _, _)
\* The clauses from the i-th on: a clause known to be true is dropped, a
\* clause known to be false ends the body with an unconditional skip.
OptimizeConds(conds, i, g) ==
    IF i > Len(conds)
    THEN [conds |-> <<>>, skip |-> FALSE]
    ELSE LET c == Resolve(conds[i], g)
         IN  IF IsFalse(c)
             THEN [conds |-> <<>>, skip |-> TRUE]
             ELSE LET rest == OptimizeConds(conds, i + 1, g)
                  IN  IF IsTrue(c)
                      THEN rest
                      ELSE [rest EXCEPT !.conds = <<c>> \o rest.conds]

\* An elision that knows lists only.
OptimizeListsOnly(c, g) ==
    IF c.kind # "Loop"
    THEN c
    ELSE IF Resolve(c.iter, g) = Const("EmptyList")
    THEN ComprEmpty
    ELSE LET cs == OptimizeConds(c.conds, 1, g)
         IN  ComprLoop(Resolve(c.iter, g), cs.conds, c.skip \/ cs.skip)

\* The elision shared by both passes, with the facts g.
Optimize(c, g) ==
    IF c.kind # "Loop"
    THEN c
    ELSE IF IsEmptyContainer(Resolve(c.iter, g))
    THEN ComprEmpty
    ELSE LET cs == OptimizeConds(c.conds, 1, g)
         IN  ComprLoop(Resolve(c.iter, g), cs.conds, c.skip \/ cs.skip)

\* The instructions that evaluate an expression.
ExprInstrs(e) ==
    CASE e.kind = "Local" -> <<"LoadLocal">>
      [] e.kind = "Global" -> <<"LoadModule">>
      [] OTHER -> <<"Const">>

RECURSIVE CondInstrs(_, _)
\* Each clause: evaluate it and, if false, skip to the next iteration.
CondInstrs(conds, i) ==
    IF i > Len(conds)
    THEN <<>>
    ELSE ExprInstrs(conds[i]) \o <<"IfNotBr">> \o CondInstrs(conds, i + 1)

\* The instructions of `def test(...): return <comprehension>`.
ComprWriteBc(c) ==
    IF c.kind = "Empty"
    THEN <<"ListNew", "Return">>
    ELSE <<"ListNew">> \o ExprInstrs(c.iter) \o <<"ForLoop", "StoreLocal">>
            \o CondInstrs(c.conds, 1)
            \o (IF c.skip THEN <<>> ELSE <<"LoadLocal", "ComprListAppend">>)
            \o <<"Continue", "Return">>

(***************************************************************************)
(* DefCompiled::write_bc                                                   *)
(***************************************************************************)

\* An expression of the def: e is what it belongs to (the position of its
\* parameter, 0 for the return type), size the number of instructions its
\* write_bc emits.
NoExpr == [e |-> 0, size |-> 0]
Expr(e, size) == [e |-> e, size |-> size]

\* Option<index>: None.
NoIndex == 0 - 1

\* ParameterCompiled<T>: T is an expression before write_bc and an index
\* after it.  Only WithDefaultValue holds a T.
ParameterCompiled(kind, name, t) == [kind |-> kind, name |-> name, t |-> t]

\* The parameters a def can have at position i; its name is its position.
ParametersCompiledAt(i) ==
    {ParameterCompiled(k, i, NoExpr) : k \in {"Normal", "Args", "KWArgs"}}
    \cup {ParameterCompiled("NoArgs", 0, NoExpr)}
    \cup {ParameterCompiled("WithDefaultValue", i, Expr(i, n)) : n \in 1..MaxExprInstrs}

\* The parameter lists of length n.
ParamListsOfLen(n) ==
    {ps \in [1..n -> UNION {ParametersCompiledAt(i) : i \in 1..n}] :
        \A i \in 1..n : ps[i] \in ParametersCompiledAt(i)}

\* DefCompiled, reduced to params and return_type; the validator has
\* accepted the parameters.
DefsCompiled ==
    {[params |-> ps, return_type |-> t] :
        ps \in {qs \in UNION {ParamListsOfLen(n) : n \in 0..MaxDefParams} :
                    check_def([i \in 1..Len(qs) |->
                                  [kind |-> qs[i].kind, name |-> qs[i].name]]).ok},
        t \in {NoExpr} \cup {Expr(0, n) : n \in 1..MaxExprInstrs}}

\* An instruction in the BcWriter.
NoData == [params |-> <<>>, return_type |-> NoIndex]
ExprInstr(e, n) == [op |-> "Expr", e |-> e, n |-> n, pops |-> 0, data |-> NoData]
InstrDef(pops, data) == [op |-> "InstrDef", e |-> 0, n |-> 0, pops |-> pops, data |-> data]

\* ExprCompiled::write_bc: the instructions of the expression, in order.
ExprWriteBc(expr) == [n \in 1..expr.size |-> ExprInstr(expr.e, n)]

\* The state of write_bc: the writer and value_count; index is what the last
\* closure call returned.
WriteStart(writer) == [bc |-> writer, value_count |-> 0, index |-> NoIndex]

\* A closure that returns the count after the increment.
WriteOperandCountAfter(st, expr) ==
    [bc |-> st.bc \o ExprWriteBc(expr),
     value_count |-> st.value_count + 1,
     index |-> st.value_count + 1]

\* |e| { e.write_bc(bc); value_count += 1; value_count - 1 }
WriteOperand(st, expr) ==
    [bc |-> st.bc \o ExprWriteBc(expr),
     value_count |-> st.value_count + 1,
     index |-> (st.value_count + 1) - 1]

\* ParameterCompiled::map_expr: f is applied to the default value.
map_expr(st, param) ==
    IF param.kind = "WithDefaultValue"
    THEN LET nx == WriteOperand(st, param.t)
         IN  [st |-> nx, param |-> ParameterCompiled(param.kind, param.name, nx.index)]
    ELSE [st |-> st, param |-> ParameterCompiled(param.kind, param.name, NoIndex)]

RECURSIVE MapParams(_, _, _)
\* params.map(|p| p.map(|p| p.map_expr(..))): from parameter i on, in order.
MapParams(st, params, i) ==
    IF i > Len(params)
    THEN [st |-> st, params |-> <<>>]
    ELSE LET one == map_expr(st, params[i])
             rest == MapParams(one.st, params, i + 1)
         IN  [st |-> rest.st, params |-> <<one.param>> \o rest.params]

\* DefCompiled::write_bc
write_bc(def, writer) ==
    LET mapped == MapParams(WriteStart(writer), def.params, 1)
        rt == IF def.return_type = NoExpr
              THEN [mapped.st EXCEPT !.index = NoIndex]
              ELSE WriteOperand(mapped.st, def.return_type)
        instr_def_data == [params |-> mapped.params, return_type |-> rt.index]
    IN  rt.bc \o <<InstrDef(rt.value_count, instr_def_data)>>

NoDef == [params |-> <<>>, return_type |-> NoExpr]
NotWritten == <<>>

(***************************************************************************)
(* Idle values of the variables a specification does not use.              *)
(***************************************************************************)
CallIdle == callee = NoName /\ args = <<>> /\ callRes = Pending
DefIdle == parameters = <<>> /\ defRes = Pending
LoopIdle == stmt = [kind |-> "Pass", body |-> <<>>] /\ loopRes = LoopPending
TupleIdle == heap = <<>> /\ tupRes = NoOp
ProfIdle ==
    /\ mode = "Disabled"
    /\ bc = BcProfileDataDefault
    /\ pairs = BcPairsProfileDataDefault
    /\ clock = 0
    /\ panicked = FALSE
    /\ hist = <<>>
    /\ ret = Called("new", RetNone)
    /\ dest = "untouched"

ComprIdle ==
    /\ module = Module(EmptyListLit, <<>>, <<>>)
    /\ phase = "idle"
    /\ pc = 0
    /\ globals = NoGlobals
    /\ compr = NoCompr
    /\ instrs = <<>>

WriteIdle == defc = NoDef /\ written = NotWritten

callVars == <<callee, args, callRes>>
defVars == <<parameters, defRes>>
loopVars == <<stmt, loopRes>>
tupleVars == <<heap, tupRes>>
profVars == <<mode, bc, pairs, clock, panicked, hist, ret, dest>>
comprVars == <<module, phase, pc, globals, compr, instrs>>
writeVars == <<defc, written>>

(***************************************************************************)
(* Specification of check_call.                                            *)
(***************************************************************************)
InitCall ==
    /\ callee \in Callees
    /\ args \in SeqUpTo(Arguments, MaxArgs)
    /\ callRes = Pending
    /\ DefIdle
    /\ LoopIdle
    /\ TupleIdle
    /\ ProfIdle
    /\ ComprIdle
    /\ WriteIdle

CheckCall ==
    /\ callRes = Pending
    /\ callRes' = check_call(callee, args)
    /\ UNCHANGED <<callee, args, defVars, loopVars, tupleVars, profVars, comprVars, writeVars>>

NextCall == CheckCall

SpecCall == InitCall /\ [][NextCall]_vars

(***************************************************************************)
(* Specification of check_def.                                             *)
(***************************************************************************)
InitDef ==
    /\ parameters \in SeqUpTo(Parameters, MaxParams)
    /\ defRes = Pending
    /\ CallIdle
    /\ LoopIdle
    /\ TupleIdle
    /\ ProfIdle
    /\ ComprIdle
    /\ WriteIdle

CheckDef ==
    /\ defRes = Pending
    /\ defRes' = check_def(parameters)
    /\ UNCHANGED <<parameters, callVars, loopVars, tupleVars, profVars, comprVars, writeVars>>

NextDef == CheckDef

SpecDef == InitDef /\ [][NextDef]_vars

(***************************************************************************)
(* Specification of validate_break_continue.                               *)
(***************************************************************************)
InitLoop ==
    /\ stmt \in Stmts
    /\ loopRes = LoopPending
    /\ CallIdle
    /\ DefIdle
    /\ TupleIdle
    /\ ProfIdle
    /\ ComprIdle
    /\ WriteIdle

ValidateBreakContinue ==
    /\ loopRes = LoopPending
    /\ loopRes' = validate_break_continue(stmt)
    /\ UNCHANGED <<stmt, callVars, defVars, tupleVars, profVars, comprVars, writeVars>>

NextLoop == ValidateBreakContinue

SpecLoop == InitLoop /\ [][NextLoop]_vars

(***************************************************************************)
(* Specification of the tuple operations: two tuples are constructed, then *)
(* one operation is applied to the first; the second (like the first       *)
(* itself) can be its operand.  Every ordered pair of tuples is drawn, so  *)
(* fixing the receiver loses no case.                                      *)
(***************************************************************************)
InitTuple ==
    /\ heap \in [1..2 -> TupleObjs]
    /\ tupRes = NoOp
    /\ CallIdle
    /\ DefIdle
    /\ LoopIdle
    /\ ProfIdle
    /\ ComprIdle
    /\ WriteIdle

otherVars == <<callVars, defVars, loopVars, profVars, comprVars, writeVars>>

Equals(a, v) ==
    /\ tupRes = NoOp
    /\ tupRes' = OpRecord("equals", a, v, equals(heap, heap[a], v))
    /\ UNCHANGED <<heap, otherVars>>

GetHash(a) ==
    /\ tupRes = NoOp
    /\ tupRes' = OpRecord("get_hash", a, IntValue(0), get_hash(heap[a]))
    /\ UNCHANGED <<heap, otherVars>>

IsIn(a, v) ==
    /\ tupRes = NoOp
    /\ tupRes' = OpRecord("is_in", a, v, is_in(heap[a], v))
    /\ UNCHANGED <<heap, otherVars>>

\* TupleGen::add
Add(a, v) ==
    /\ tupRes = NoOp
    /\ LET o == from_value(heap, v)
       IN  IF o.some
           THEN /\ heap' = alloc_tuple(heap, AddContent(heap[a], o))
                /\ tupRes' = OpRecord("add", a, v, OkValue(Len(heap) + 1))
           ELSE /\ heap' = heap
                /\ tupRes' = OpRecord("add", a, v, Err("OperationNotSupported"))
    /\ UNCHANGED otherVars

\* TupleGen::mul
Mul(a, v) ==
    /\ tupRes = NoOp
    /\ LET i == unpack_int(v)
       IN  IF i.some
           THEN /\ heap' = alloc_tuple(heap, MulContent(heap[a], i.l))
                /\ tupRes' = OpRecord("mul", a, v, OkValue(Len(heap) + 1))
           ELSE /\ heap' = heap
                /\ tupRes' = OpRecord("mul", a, v, Err("IncorrectParameterType"))
    /\ UNCHANGED otherVars

NextTuple ==
    \/ GetHash(1)
    \/ \E v \in Others(heap) :
            \/ Equals(1, v)
            \/ IsIn(1, v)
            \/ Add(1, v)
            \/ Mul(1, v)

SpecTuple == InitTuple /\ [][NextTuple]_vars

(***************************************************************************)
(* Specification of the profiler: it is created Disabled; the evaluator    *)
(* enables a mode and the execution loop calls before_instr.               *)
(***************************************************************************)
\* BcProfile::new
InitProfile ==
    /\ ProfIdle
    /\ CallIdle
    /\ DefIdle
    /\ LoopIdle
    /\ TupleIdle
    /\ ComprIdle
    /\ WriteIdle

nonProfVars == <<callVars, defVars, loopVars, tupleVars, comprVars, writeVars>>

profile == Profile(mode, bc, pairs)

\* BcProfile::enable_1
Enable1 ==
    /\ ~panicked
    /\ mode' = enable_1(profile).mode
    /\ bc' = enable_1(profile).bc
    /\ pairs' = enable_1(profile).pairs
    /\ hist' = <<>>
    /\ ret' = Called("enable_1", RetUnit)
    /\ UNCHANGED <<clock, panicked, dest, nonProfVars>>

\* BcProfile::enable_2
Enable2 ==
    /\ ~panicked
    /\ mode' = enable_2(profile).mode
    /\ pairs' = enable_2(profile).pairs
    /\ bc' = enable_2(profile).bc
    /\ hist' = <<>>
    /\ ret' = Called("enable_2", RetUnit)
    /\ UNCHANGED <<clock, panicked, dest, nonProfVars>>

\* BcProfile::enabled
Enabled ==
    /\ ~panicked
    /\ ret' = Called("enabled", RetBool(enabled(profile)))
    /\ UNCHANGED <<mode, bc, pairs, clock, panicked, hist, dest, nonProfVars>>

\* A before_instr that does nothing while the profiler is Disabled.
BeforeInstrDisabledNoOp(opcode, now) ==
    /\ ~panicked
    /\ Len(hist) < MaxCalls
    /\ now >= clock
    /\ CASE mode = "Bc" ->
              /\ bc' = BcProfileData_before_instr(bc, opcode, now)
              /\ clock' = now
              /\ hist' = Append(hist, opcode)
              /\ ret' = Called("before_instr", RetUnit)
              /\ UNCHANGED <<mode, pairs, panicked>>
         [] mode = "BcPairs" ->
              /\ pairs' = BcPairsProfileData_before_instr(pairs, opcode)
              /\ hist' = Append(hist, opcode)
              /\ ret' = Called("before_instr", RetUnit)
              /\ UNCHANGED <<mode, bc, clock, panicked>>
         [] mode = "Disabled" ->
              /\ ret' = Called("before_instr", RetUnit)
              /\ UNCHANGED <<mode, bc, pairs, clock, hist, panicked>>
    /\ UNCHANGED <<dest, nonProfVars>>

\* BcProfile::before_instr; `now` is what Instant::now() returns, never
\* earlier than the previous reading.
BeforeInstr(opcode, now) ==
    /\ ~panicked
    /\ Len(hist) < MaxCalls
    /\ now >= clock
    /\ CASE mode = "Bc" ->
              /\ bc' = BcProfileData_before_instr(bc, opcode, now)
              /\ clock' = now
              /\ hist' = Append(hist, opcode)
              /\ ret' = Called("before_instr", RetUnit)
              /\ UNCHANGED <<mode, pairs, panicked>>
         [] mode = "BcPairs" ->
              /\ pairs' = BcPairsProfileData_before_instr(pairs, opcode)
              /\ hist' = Append(hist, opcode)
              /\ ret' = Called("before_instr", RetUnit)
              /\ UNCHANGED <<mode, bc, clock, panicked>>
         [] mode = "Disabled" ->
              /\ panicked' = TRUE
              /\ ret' = Called("before_instr", RetPanic)
              /\ UNCHANGED <<mode, bc, pairs, clock, hist>>
    /\ UNCHANGED <<dest, nonProfVars>>

\* BcProfile::gen_csv (&self): the HashMap of the pairs is iterated in any
\* order.
GenCsv ==
    /\ ~panicked
    /\ \E order \in IterationOrders(DOMAIN pairs.by_instr) :
            ret' = Called("gen_csv", BcProfile_gen_csv(profile, order))
    /\ UNCHANGED <<mode, bc, pairs, clock, panicked, hist, dest, nonProfVars>>

\* BcProfile::write_csv: fs::write(path, self.gen_csv()?.as_bytes())?.  The
\* write succeeds, or fails with an I/O error before or after it touched the
\* destination.  dest tells whether anything was written to the destination.
WriteCsv ==
    /\ ~panicked
    /\ \E order \in IterationOrders(DOMAIN pairs.by_instr) :
         LET csv == BcProfile_gen_csv(profile, order)
         IN  IF csv.kind = "err"
             THEN ret' = Called("write_csv", csv) /\ dest' = dest
             ELSE \/ ret' = Called("write_csv", RetUnit) /\ dest' = "touched"
                  \/ ret' = Called("write_csv", RetErr("Io")) /\ dest' \in {dest, "touched"}
    /\ UNCHANGED <<mode, bc, pairs, clock, panicked, hist, nonProfVars>>

NextProfile ==
    \/ Enable1
    \/ Enable2
    \/ Enabled
    \/ \E opcode \in Opcodes, now \in 0..MaxTime : BeforeInstr(opcode, now)
    \/ GenCsv
    \/ WriteCsv

SpecProfile == InitProfile /\ [][NextProfile]_vars

(***************************************************************************)
(* Specification of the compilation of a module with one comprehension.    *)
(***************************************************************************)
nonComprVars == <<callVars, defVars, loopVars, tupleVars, profVars, writeVars>>

InitCompr ==
    /\ module \in Modules
    /\ phase = "source"
    /\ pc = 1
    /\ globals = NoGlobals
    /\ compr = NoCompr
    /\ instrs = <<>>
    /\ CallIdle
    /\ DefIdle
    /\ LoopIdle
    /\ TupleIdle
    /\ ProfIdle
    /\ WriteIdle

\* The def statement runs: first compilation, with the facts of the def
\* alone.
Compile ==
    /\ phase = "source"
    /\ phase' = "compiled"
    /\ compr' = Optimize(ComprLoop(module.iter, module.conds, FALSE), NoGlobals)
    /\ instrs' = ComprWriteBc(compr')
    /\ UNCHANGED <<module, pc, globals, nonComprVars>>

\* An assignment that does not rebind a name that is already bound.
ExecAssignFirstWins ==
    /\ phase = "compiled"
    /\ pc <= Len(module.assigns)
    /\ globals' = IF globals[module.assigns[pc].name] = Unassigned
                  THEN [globals EXCEPT ![module.assigns[pc].name] = module.assigns[pc].value]
                  ELSE globals
    /\ pc' = pc + 1
    /\ UNCHANGED <<module, phase, compr, instrs, nonComprVars>>

\* The next module-level assignment runs.
ExecAssign ==
    /\ phase = "compiled"
    /\ pc <= Len(module.assigns)
    /\ globals' = [globals EXCEPT ![module.assigns[pc].name] = module.assigns[pc].value]
    /\ pc' = pc + 1
    /\ UNCHANGED <<module, phase, compr, instrs, nonComprVars>>

\* The module is frozen: the finalization pass, with the final values of
\* the module bindings.
Freeze ==
    /\ phase = "compiled"
    /\ pc > Len(module.assigns)
    /\ phase' = "frozen"
    /\ compr' = Optimize(compr, globals)
    /\ instrs' = ComprWriteBc(compr')
    /\ UNCHANGED <<module, pc, globals, nonComprVars>>

NextCompr ==
    \/ Compile
    \/ ExecAssign
    \/ Freeze

SpecCompr == InitCompr /\ [][NextCompr]_vars

(***************************************************************************)
(* Specification of write_bc: a compiled def is written to an empty        *)
(* BcWriter.                                                               *)
(***************************************************************************)
InitWrite ==
    /\ defc \in DefsCompiled
    /\ written = NotWritten
    /\ CallIdle
    /\ DefIdle
    /\ LoopIdle
    /\ TupleIdle
    /\ ProfIdle
    /\ ComprIdle

WriteBc ==
    /\ written = NotWritten
    /\ written' = write_bc(defc, <<>>)
    /\ UNCHANGED <<defc, callVars, defVars, loopVars, tupleVars, profVars, comprVars>>

NextWrite == WriteBc

SpecWrite == InitWrite /\ [][NextWrite]_vars

(***************************************************************************)
(* Properties of check_call.                                               *)
(***************************************************************************)

\* The order Positional < Named < ArgsArray < KWArgsDict of the argument tags.
TagRank(tag) ==
    CASE tag = "Positional" -> 0
      [] tag = "Named" -> 1
      [] tag = "ArgsArray" -> 2
      [] tag = "KWArgsDict" -> 3

CountTag(xs, tag) == Cardinality({i \in 1..Len(xs) : xs[i].tag = tag})

TagsNonDecreasing(xs) ==
    \A i, j \in 1..Len(xs) : i < j => TagRank(xs[i].tag) <= TagRank(xs[j].tag)

NamedDistinct(xs) ==
    \A i, j \in 1..Len(xs) :
        (i < j /\ xs[i].tag = "Named" /\ xs[j].tag = "Named")
            => xs[i].name # xs[j].name

CallAcceptable(xs) ==
    /\ TagsNonDecreasing(xs)
    /\ NamedDistinct(xs)
    /\ CountTag(xs, "ArgsArray") <= 1
    /\ CountTag(xs, "KWArgsDict") <= 1

\* C1: check_call returns Ok exactly when the tags are non-decreasing in the
\* order Positional < Named < ArgsArray < KWArgsDict, the Named names are
\* pairwise distinct and ArgsArray and KWArgsDict each occur at most once;
\* on Ok the call node holds the callee and the same arguments in order.
C1_CheckCallAcceptsIff ==
    callRes # Pending =>
        /\ callRes.ok <=> CallAcceptable(args)
        /\ callRes.ok => (callRes.f = callee /\ callRes.node = args)

\* An accepted call that uses all four argument kinds.
C1_Witness ==
    /\ callRes # Pending
    /\ callRes.ok
    /\ \A t \in {"Positional", "Named", "ArgsArray", "KWArgsDict"} :
            CountTag(args, t) >= 1

(***************************************************************************)
(* Properties of check_def.                                                *)
(***************************************************************************)

BindsName(p) == p.kind # "NoArgs"

CountKind(ps, kinds) == Cardinality({i \in 1..Len(ps) : ps[i].kind \in kinds})

ParamNamesDistinct(ps) ==
    \A i, j \in 1..Len(ps) :
        (i < j /\ BindsName(ps[i]) /\ BindsName(ps[j])) => ps[i].name # ps[j].name

\* Some parameter of a kind in `later` has an earlier parameter of a kind in
\* `earlier`.
Follows(ps, later, earlier) ==
    \E i, j \in 1..Len(ps) :
        i < j /\ ps[i].kind \in earlier /\ ps[j].kind \in later

KindRank(kind) ==
    CASE kind = "Normal" -> 0
      [] kind = "WithDefaultValue" -> 1
      [] kind = "NoArgs" -> 2
      [] kind = "Args" -> 3
      [] kind = "KWArgs" -> 4

\* Normal* WithDefaultValue* NoArgs? Args? KWArgs?
MatchesKindPattern(ps) ==
    /\ \A i, j \in 1..Len(ps) :
            i < j => KindRank(ps[i].kind) <= KindRank(ps[j].kind)
    /\ CountKind(ps, {"NoArgs"}) <= 1
    /\ CountKind(ps, {"Args"}) <= 1
    /\ CountKind(ps, {"KWArgs"}) <= 1

\* The ordering the loop of check_def enforces.
DefOrderAcceptable(ps) ==
    /\ ~Follows(ps, {"Normal"}, {"WithDefaultValue", "KWArgs"})
    /\ ~Follows(ps, {"WithDefaultValue"}, {"KWArgs"})
    /\ ~Follows(ps, {"NoArgs", "Args"}, {"NoArgs", "Args", "KWArgs"})
    /\ CountKind(ps, {"KWArgs"}) <= 1

\* C2 as stated: check_def returns Ok exactly when the bound names are
\* pairwise distinct and the kinds match
\* Normal* WithDefaultValue* NoArgs? Args? KWArgs?.
C2_Original ==
    defRes # Pending =>
        (defRes.ok <=> (ParamNamesDistinct(parameters)
                        /\ MatchesKindPattern(parameters)))

\* C2 amended: check_def returns Ok exactly when the bound names are pairwise
\* distinct, no Normal follows a WithDefaultValue or KWArgs, no
\* WithDefaultValue follows a KWArgs, no NoArgs/Args follows a NoArgs, Args
\* or KWArgs, and there is at most one KWArgs; on Ok the parameters are
\* returned unchanged.
C2_CheckDefAcceptsIff ==
    defRes # Pending =>
        /\ defRes.ok <=> (ParamNamesDistinct(parameters)
                          /\ DefOrderAcceptable(parameters))
        /\ defRes.ok => defRes.node = parameters

\* An accepted list `*args, x`, which the kind pattern excludes.
C2_Witness ==
    /\ defRes # Pending
    /\ defRes.ok
    /\ Follows(parameters, {"Normal"}, {"Args"})
    /\ CountKind(parameters, {"WithDefaultValue"}) = 0
    /\ Len(parameters) = 2

\* C4 as stated: every list with a Normal parameter after a WithDefaultValue,
\* NoArgs, Args or KWArgs parameter is rejected.
C4_Original ==
    (defRes # Pending
     /\ Follows(parameters, {"Normal"},
                {"WithDefaultValue", "NoArgs", "Args", "KWArgs"}))
        => ~defRes.ok

\* C4 amended: every list with a Normal parameter after a WithDefaultValue or
\* KWArgs parameter is rejected, and positional-after-non-positional is only
\* ever reported at a Normal parameter that has a WithDefaultValue or KWArgs
\* parameter before it (a Normal after only `*` or `*args` does not raise it).
C4_NormalAfterOptionalRejected ==
    defRes # Pending =>
        /\ Follows(parameters, {"Normal"}, {"WithDefaultValue", "KWArgs"})
                => ~defRes.ok
        /\ defRes.err = "PositionalThenNonPositional" =>
                /\ parameters[defRes.at].kind = "Normal"
                /\ \E i \in 1..(defRes.at - 1) :
                        parameters[i].kind \in {"WithDefaultValue", "KWArgs"}

\* positional-after-non-positional reported for a Normal parameter that
\* follows both `*args` and a default-valued parameter.
C4_Witness ==
    /\ defRes # Pending
    /\ defRes.err = "PositionalThenNonPositional"
    /\ \E i \in 1..(defRes.at - 1) : parameters[i].kind = "Args"

(***************************************************************************)
(* Properties of validate_break_continue.                                  *)
(***************************************************************************)

RECURSIVE Paths(_)
\* The paths (sequences of child indices) of the nodes of a statement tree.
Paths(s) ==
    {<<>>} \cup UNION {{<<i>> \o q : q \in Paths(s.body[i])} : i \in 1..Len(s.body)}

RECURSIVE NodeAt(_, _)
NodeAt(s, p) == IF p = <<>> THEN s ELSE NodeAt(s.body[Head(p)], Tail(p))

\* The node at p has an enclosing for with no def between that for and it.
InsideLoop(s, p) ==
    \E k \in 0..(Len(p) - 1) :
        /\ NodeAt(s, SubSeq(p, 1, k)).kind = "For"
        /\ \A j \in (k + 1)..(Len(p) - 1) : NodeAt(s, SubSeq(p, 1, j)).kind # "Def"

\* The break and continue statements that are not inside a loop.
Misplaced(s) ==
    {p \in Paths(s) : NodeAt(s, p).kind \in {"Break", "Continue"} /\ ~InsideLoop(s, p)}

\* p comes before q in the depth-first walk (both are leaves).
Before(p, q) ==
    \E k \in 1..Len(p) :
        /\ k <= Len(q)
        /\ p[k] < q[k]
        /\ \A j \in 1..(k - 1) : p[j] = q[j]

ErrorFor(kind) ==
    IF kind = "Break" THEN "BreakOutsideLoop" ELSE "ContinueOutsideLoop"

\* C3: validate_break_continue returns Ok exactly when every break and
\* continue has an enclosing for with no def in between; otherwise it fails
\* with break-outside-loop or continue-outside-loop according to the first
\* misplaced statement of the depth-first walk, located at that statement.
C3_BreakContinueInsideLoop ==
    loopRes # LoopPending =>
        /\ loopRes.err = "none" <=> Misplaced(stmt) = {}
        /\ loopRes.err # "none" =>
                /\ loopRes.span \in Misplaced(stmt)
                /\ \A q \in Misplaced(stmt) : q # loopRes.span => Before(loopRes.span, q)
                /\ loopRes.err = ErrorFor(NodeAt(stmt, loopRes.span).kind)

ForNode(b) == [kind |-> "For", body |-> <<b>>]
DefNode(b) == [kind |-> "Def", body |-> <<b>>]
Leaf(k) == [kind |-> k, body |-> <<>>]

\* for -> def -> break is rejected with break-outside-loop.
C3_Witness ==
    /\ stmt = ForNode(DefNode(Leaf("Break")))
    /\ loopRes = LoopErr("BreakOutsideLoop", <<1, 1>>)

\* for -> def -> for -> break is accepted.
C3_WitnessNested ==
    /\ stmt = ForNode(DefNode(ForNode(Leaf("Break"))))
    /\ loopRes = LoopOk

(***************************************************************************)
(* Properties of the tuple operations.                                     *)
(***************************************************************************)

\* The least element of a non-empty set of integers.
Least(S) == CHOOSE i \in S : \A j \in S : i <= j

\* C5: equals(other) is false when other is not a tuple; otherwise it is
\* true exactly when the lengths agree and every pair of elements at the
\* same index is equal, whichever of the two is the frozen representation;
\* it fails only if a pair fails to compare; two tuples constructed from the
\* same list are equal and (1, 2) is not equal to (2, 1).
C5_EqualsElementwise ==
    tupRes.op = "equals" =>
        LET self == heap[tupRes.self]
            v == tupRes.other
            r == tupRes.r
        IN  IF v.ty # "tuple"
            THEN r = OkBool(FALSE)
            ELSE LET o == heap[v.n]
                     same == /\ o.len = self.len
                             /\ \A i \in 1..self.len :
                                    ElemEquals(self.content[i], o.content[i])
                                        = OkBool(TRUE)
                 IN  /\ (r = OkBool(TRUE)) <=> same
                     /\ self.content = o.content => r = OkBool(TRUE)
                     /\ (self.content = <<IntValue(1), IntValue(2)>>
                         /\ o.content = <<IntValue(2), IntValue(1)>>)
                            => r = OkBool(FALSE)
                     /\ ~r.ok => \E i \in 1..self.len :
                            i <= o.len /\ ~ElemEquals(self.content[i], o.content[i]).ok
                     /\ r.ok => r.kind = "bool"

\* A mutable-heap tuple found equal to a frozen tuple of two elements.
C5_Witness ==
    /\ tupRes.op = "equals"
    /\ tupRes.other.ty = "tuple"
    /\ heap[tupRes.self].repr = "Tuple"
    /\ heap[tupRes.other.n].repr = "FrozenTuple"
    /\ heap[tupRes.self].len = 2
    /\ tupRes.r = OkBool(TRUE)

\* The results of hashing the elements of a tuple, in order.
ElemHashes(t) == [i \in 1..t.len |-> ElemHash(t.content[i])]

\* C6: get_hash fails with the error of the first element that fails to
\* hash, and otherwise returns a hash; every tuple with the same sequence
\* of element hashes (mutable or frozen) has the same hash, in particular
\* every tuple that equals it.
C6_HashOfElementHashes ==
    tupRes.op = "get_hash" =>
        LET self == heap[tupRes.self]
            r == tupRes.r
            failing == {i \in 1..self.len : ~ElemHash(self.content[i]).ok}
        IN  /\ IF failing # {}
               THEN r = ElemHash(self.content[Least(failing)])
               ELSE r.ok /\ r.kind = "u64"
            /\ \A b \in 1..Len(heap) :
                    ElemHashes(heap[b]) = ElemHashes(self) => get_hash(heap[b]) = r
            /\ \A b \in 1..Len(heap) :
                    (equals(heap, self, ValueOf(heap, b)) = OkBool(TRUE) /\ failing = {})
                        => get_hash(heap[b]) = r

\* Hashing (1, [..]) fails with the list's not-hashable error.
C6_Witness ==
    /\ tupRes.op = "get_hash"
    /\ heap[tupRes.self].content = <<IntValue(1), ListValue>>
    /\ tupRes.r = Err("NotHashableValue")

\* C7: add with a tuple as right operand returns a tuple at a new address
\* whose length is len(a) + len(b) and whose elements are a's followed by
\* b's, and leaves every tuple allocated before unchanged (also when a and
\* b are the same tuple); with any other right operand it fails with
\* unsupported-operand and the heap is unchanged.
C7_ConcatFresh ==
    [][tupRes'.op = "add" =>
        LET a == tupRes'.self
            v == tupRes'.other
            new == Len(heap) + 1
        IN  IF v.ty = "tuple"
            THEN /\ tupRes'.r = OkValue(new)
                 /\ Len(heap') = new
                 /\ \A k \in 1..Len(heap) : heap'[k] = heap[k]
                 /\ heap'[new].len = heap[a].len + heap[v.n].len
                 /\ Len(heap'[new].content) = heap'[new].len
                 /\ \A i \in 1..heap[a].len :
                        heap'[new].content[i] = heap[a].content[i]
                 /\ \A i \in 1..heap[v.n].len :
                        heap'[new].content[heap[a].len + i] = heap[v.n].content[i]
            ELSE /\ tupRes'.r = Err("OperationNotSupported")
                 /\ heap' = heap]_vars

\* A tuple of two different elements concatenated with another tuple.
C7_Witness ==
    /\ tupRes.op = "add"
    /\ tupRes.r.ok
    /\ tupRes.other.n # tupRes.self
    /\ heap[tupRes.self].content = <<IntValue(1), IntValue(2)>>
    /\ heap[tupRes.other.n].len = 2
    /\ Len(heap) = 3

\* C8: mul with an integer n >= 0 returns a tuple at a new address of
\* length n * len(t) whose element at index i is t's element at index
\* i mod len(t), and leaves every tuple allocated before unchanged; with a
\* multiplier that is not an integer it fails with incorrect-parameter-type.
C8_RepeatContent ==
    [][tupRes'.op = "mul" =>
        LET a == tupRes'.self
            v == tupRes'.other
            new == Len(heap) + 1
        IN  /\ (v.ty = "int" /\ v.n >= 0) =>
                /\ tupRes'.r = OkValue(new)
                /\ Len(heap') = new
                /\ \A k \in 1..Len(heap) : heap'[k] = heap[k]
                /\ heap'[new].len = v.n * heap[a].len
                /\ Len(heap'[new].content) = heap'[new].len
                /\ \A i \in 0..(heap'[new].len - 1) :
                        heap'[new].content[i + 1]
                            = heap[a].content[(i % heap[a].len) + 1]
            /\ v.ty # "int" =>
                /\ tupRes'.r = Err("IncorrectParameterType")
                /\ heap' = heap]_vars

\* A tuple of two different elements repeated twice.
C8_Witness ==
    /\ tupRes.op = "mul"
    /\ tupRes.other = IntValue(2)
    /\ heap[tupRes.self].content = <<IntValue(1), IntValue(2)>>
    /\ Len(heap) = 3
    /\ heap[3].len = 4

\* C9: is_in is decided by the first element whose comparison with the
\* value returns true or fails: true if it returned true, the comparison's
\* error if it failed; it is false only when every element compared unequal
\* without failure.
C9_ContainsFirstDecides ==
    tupRes.op = "is_in" =>
        LET self == heap[tupRes.self]
            v == tupRes.other
            r == tupRes.r
            decisive == {i \in 1..self.len :
                            ElemEquals(self.content[i], v) # OkBool(FALSE)}
        IN  IF decisive = {}
            THEN r = OkBool(FALSE)
            ELSE r = ElemEquals(self.content[Least(decisive)], v)

\* The value is found first; the comparison that would fail further right
\* is never made.
C9_Witness ==
    /\ tupRes.op = "is_in"
    /\ heap[tupRes.self].content = <<IntValue(1), FaultyValue>>
    /\ tupRes.other = IntValue(1)
    /\ tupRes.r = OkBool(TRUE)

(***************************************************************************)
(* Properties of the profiler.                                             *)
(***************************************************************************)

RECURSIVE SumCounts(_, _)
\* The sum of the counts of by_instr over the opcodes in S.
SumCounts(by_instr, S) ==
    IF S = {}
    THEN 0
    ELSE LET x == CHOOSE x \in S : TRUE
         IN  by_instr[x].count + SumCounts(by_instr, S \ {x})

\* The number of positions 1..n-1 of the history that hold opcode x.
Occurrences(x) == Cardinality({i \in 1..(Len(hist) - 1) : hist[i] = x})

\* C10: in PerOpcode mode, after n >= 1 before_instr calls with opcodes
\* o_1..o_n, the count of each opcode x is the number of positions i in
\* 1..n-1 with o_i = x, the counts sum to n-1, and o_n is the stored
\* previous opcode; before the first call there is no previous opcode and
\* every count is zero.
C10_PerOpcodeCounts ==
    mode = "Bc" =>
        /\ \A x \in Opcodes : bc.by_instr[x].count = Occurrences(x)
        /\ Len(hist) >= 1 =>
                /\ SumCounts(bc.by_instr, Opcodes) = Len(hist) - 1
                /\ bc.last.some
                /\ bc.last.opcode = hist[Len(hist)]
        /\ Len(hist) = 0 => ~bc.last.some

\* Three calls with opcodes 0, 1, 1: opcodes 0 and 1 have one sample each
\* and the last 1 is not counted yet.
C10_Witness ==
    /\ mode = "Bc"
    /\ hist = <<0, 1, 1>>
    /\ bc.by_instr[0].count = 1
    /\ bc.by_instr[1].count = 1
    /\ bc.last.opcode = 1

\* The number of positions i in 1..n-1 of the history with
\* (o_i, o_{i+1}) = (a, b).
PairOccurrences(a, b) ==
    Cardinality({i \in 1..(Len(hist) - 1) : hist[i] = a /\ hist[i + 1] = b})

RECURSIVE SumPairCounts(_, _)
\* The sum of the counts of the pair table over the keys in S.
SumPairCounts(map, S) ==
    IF S = {}
    THEN 0
    ELSE LET k == CHOOSE k \in S : TRUE
         IN  map[k].count + SumPairCounts(map, S \ {k})

\* C11: in PerPair mode, after the calls o_1..o_n the frequency of each
\* ordered pair (a, b) is the number of positions i in 1..n-1 with
\* (o_i, o_{i+1}) = (a, b), a pair never observed has no entry, and the
\* frequencies sum to n-1 (to 0 before the first call).
C11_PerPairCounts ==
    mode = "BcPairs" =>
        /\ DOMAIN pairs.by_instr \subseteq Opcodes \X Opcodes
        /\ \A a, b \in Opcodes :
              IF PairOccurrences(a, b) = 0
              THEN <<a, b>> \notin DOMAIN pairs.by_instr
              ELSE /\ <<a, b>> \in DOMAIN pairs.by_instr
                   /\ pairs.by_instr[<<a, b>>].count = PairOccurrences(a, b)
        /\ SumPairCounts(pairs.by_instr, DOMAIN pairs.by_instr)
              = IF Len(hist) >= 1 THEN Len(hist) - 1 ELSE 0
        /\ pairs.last.some <=> Len(hist) >= 1
        /\ Len(hist) >= 1 => pairs.last.opcode = hist[Len(hist)]

\* The sequence [A, B, A, B]: (A, B) was counted twice and (B, A) once.
C11_Witness ==
    /\ mode = "BcPairs"
    /\ hist = <<0, 1, 0, 1>>
    /\ pairs.by_instr[<<0, 1>>].count = 2
    /\ pairs.by_instr[<<1, 0>>].count = 1
    /\ DOMAIN pairs.by_instr = {<<0, 1>>, <<1, 0>>}

NotEnabled == RetErr("BcProfilingNotEnabled")

\* C12: a new profiler is Disabled; gen_csv and write_csv fail with
\* BcProfilingNotEnabled exactly when the profiler is Disabled; in both
\* enabled modes gen_csv returns the report of the mode; after a request that
\* failed with BcProfilingNotEnabled the profiler is still Disabled and
\* nothing was written to the destination.
C12_ReportFailsIffDisabled ==
    /\ ret.op = "new" => mode = "Disabled"
    /\ ret.op \in {"gen_csv", "write_csv"} =>
            /\ ret.val = NotEnabled <=> mode = "Disabled"
            /\ ret.val = NotEnabled => dest = "untouched"
    /\ ret.op = "gen_csv" =>
            /\ mode = "Bc" => ret.val.kind = "csv" /\ ret.val.csv.header[1] = "Opcode"
            /\ mode = "BcPairs" => ret.val.kind = "csv" /\ ret.val.csv.header[1] = "Opcode[0]"
    /\ ret.op = "write_csv" /\ mode # "Disabled" => ret.val \in {RetUnit, RetErr("Io")}

\* write_csv was called on a profiler that was never enabled.
C12_Witness ==
    /\ mode = "Disabled"
    /\ ret = Called("write_csv", NotEnabled)
    /\ dest = "untouched"
    /\ ~panicked

AllZero(data) == \A x \in Opcodes : data.by_instr[x] = BcInstrStatDefault

\* The rows of a report that are not the TOTAL row.
DataRows(csv) == {csv.rows[i] : i \in {j \in 1..Len(csv.rows) : csv.rows[j].label # "TOTAL"}}

\* C13: after enable_1 or enable_2, called in any state, the profiler is in
\* the chosen mode with every count zero, an empty pair table and no stored
\* previous opcode; after the first before_instr that follows an enable
\* there is still no sample and no pair; and a report holds only what was
\* recorded since the last enable.
C13_EnableDiscards ==
    /\ ret.op = "enable_1" =>
            mode = "Bc" /\ AllZero(bc) /\ ~bc.last.some /\ bc = BcProfileDataDefault
    /\ ret.op = "enable_2" =>
            /\ mode = "BcPairs"
            /\ DOMAIN pairs.by_instr = {}
            /\ ~pairs.last.some
    /\ ret.op = "before_instr" /\ Len(hist) = 1 =>
            /\ mode = "Bc" => AllZero(bc)
            /\ mode = "BcPairs" => DOMAIN pairs.by_instr = {}
    /\ ret.op = "gen_csv" /\ mode = "Bc" =>
            \A r \in DataRows(ret.val.csv) : r.count = Occurrences(r.o0)
    /\ ret.op = "gen_csv" /\ mode = "BcPairs" =>
            \A r \in DataRows(ret.val.csv) : r.count = PairOccurrences(r.o0, r.o1)

\* Per-pair mode was just enabled on a profiler whose clock shows that an
\* earlier per-opcode session had run.
C13_Witness ==
    /\ mode = "BcPairs"
    /\ hist = <<>>
    /\ ret = Called("enable_2", RetUnit)
    /\ clock > 0
    /\ pairs = BcPairsProfileDataDefault

\* C14 as stated: no operation faults, and the only error is
\* BcProfilingNotEnabled from a report request while Disabled.
C14_Original ==
    /\ ~panicked
    /\ ret.val.kind # "panic"
    /\ ret.val.kind = "err" => ret.val = NotEnabled /\ mode = "Disabled"

\* C14: enable_1, enable_2 and enabled complete in every state; before_instr
\* completes in both enabled modes and panics when the profiler is Disabled;
\* gen_csv fails only with BcProfilingNotEnabled while Disabled; write_csv
\* fails with that error while Disabled and otherwise only with the I/O
\* error of the write.
C14_ProfilerFailures ==
    /\ ret.op \in {"enable_1", "enable_2"} => ret.val = RetUnit /\ ~panicked
    /\ ret.op = "enabled" => ret.val = RetBool(mode # "Disabled") /\ ~panicked
    /\ ret.op = "before_instr" =>
            IF mode = "Disabled"
            THEN panicked /\ ret.val = RetPanic
            ELSE ~panicked /\ ret.val = RetUnit
    /\ ret.op = "gen_csv" =>
            /\ ~panicked
            /\ ret.val.kind = "err" => ret.val = NotEnabled /\ mode = "Disabled"
    /\ ret.op = "write_csv" =>
            /\ ~panicked
            /\ ret.val.kind = "err" =>
                    \/ ret.val = NotEnabled /\ mode = "Disabled"
                    \/ ret.val = RetErr("Io") /\ mode # "Disabled"
    /\ panicked => ret.op = "before_instr"

\* before_instr was called on a profiler that was never enabled.
C14_Witness ==
    /\ panicked
    /\ mode = "Disabled"
    /\ ret = Called("before_instr", RetPanic)
    /\ hist = <<>>

RECURSIVE SumTimes(_, _)
\* The sum of the total times of by_instr over the opcodes in S.
SumTimes(by_instr, S) ==
    IF S = {}
    THEN 0
    ELSE LET x == CHOOSE x \in S : TRUE
         IN  by_instr[x].total_time + SumTimes(by_instr, S \ {x})

\* total / count when count > 0, and zero when count = 0.
AverageOf(r) == IF r.count > 0 THEN r.total_time \div r.count ELSE 0

\* C15: the per-opcode report has the header, then the TOTAL row with the
\* sum of the counts and of the times, then exactly one row for every opcode
\* (those with count 0 too) with the opcode's count and time, in
\* non-increasing order of count; the average of every row is total / count
\* when count > 0 and zero otherwise, also when every count is zero.
C15_PerOpcodeReport ==
    mode = "Bc" /\ ret.val.kind = "csv" =>
        LET rows == ret.val.csv.rows
        IN  /\ ret.val.csv.header = <<"Opcode", "Count", "Total time (s)", "Avg time (ns)">>
            /\ Len(rows) = OpcodeCount + 1
            /\ rows[1].label = "TOTAL"
            /\ rows[1].count = SumCounts(bc.by_instr, Opcodes)
            /\ rows[1].total_time = SumTimes(bc.by_instr, Opcodes)
            /\ \A i \in 2..Len(rows) : rows[i].label = "opcode" /\ rows[i].o0 \in Opcodes
            /\ \A x \in Opcodes :
                  \E i \in 2..Len(rows) :
                      /\ rows[i].o0 = x
                      /\ rows[i].count = bc.by_instr[x].count
                      /\ rows[i].total_time = bc.by_instr[x].total_time
                      /\ \A j \in 2..Len(rows) : rows[j].o0 = x => j = i
            /\ \A i \in 2..(Len(rows) - 1) : rows[i].count >= rows[i + 1].count
            /\ \A i \in 1..Len(rows) : rows[i].avg = AverageOf(rows[i])

\* A report after the calls 1, 1, 0: opcode 1 with its two samples comes
\* before opcode 0, whose count and average are zero.
C15_Witness ==
    /\ mode = "Bc"
    /\ ret.val.kind = "csv"
    /\ hist = <<1, 1, 0>>
    /\ ret.val.csv.rows[1].count = 2
    /\ ret.val.csv.rows[2].o0 = 1
    /\ ret.val.csv.rows[2].count = 2
    /\ ret.val.csv.rows[3].o0 = 0
    /\ ret.val.csv.rows[3].count = 0
    /\ ret.val.csv.rows[3].avg = 0

\* Row x comes before row y: the greater count first, and among equal
\* counts the smaller first opcode, then the smaller second opcode.
RowBefore(x, y) ==
    \/ x.count > y.count
    \/ x.count = y.count /\ x.o0 < y.o0
    \/ x.count = y.count /\ x.o0 = y.o0 /\ x.o1 < y.o1

\* C16: the per-pair report has exactly one row for every pair observed at
\* least once and no other row, each with the pair's count; the rows are in
\* descending order of count, equal counts in the order of (first opcode,
\* second opcode); the report is the same whatever the order in which the
\* table yields the pairs; with no pair recorded it has no rows.
C16_PerPairReport ==
    mode = "BcPairs" /\ ret.val.kind = "csv" =>
        LET rows == ret.val.csv.rows
        IN  /\ ret.val.csv.header = <<"Opcode[0]", "Opcode[1]", "Count", "Count / Total">>
            /\ \A i \in 1..Len(rows) :
                  /\ rows[i].label = "pair"
                  /\ PairOccurrences(rows[i].o0, rows[i].o1) >= 1
                  /\ rows[i].count = PairOccurrences(rows[i].o0, rows[i].o1)
            /\ \A a, b \in Opcodes :
                  PairOccurrences(a, b) >= 1 =>
                      \E i \in 1..Len(rows) : rows[i].o0 = a /\ rows[i].o1 = b
            /\ \A i, j \in 1..Len(rows) : i < j => RowBefore(rows[i], rows[j])
            /\ \A order \in IterationOrders(DOMAIN pairs.by_instr) :
                  BcPairsProfileData_gen_csv(pairs, order) = ret.val.csv
            /\ Len(hist) <= 1 => rows = <<>>

\* A report after the calls 1, 0, 0, 1: the pairs (1,0), (0,0), (0,1) were
\* seen once each, in that order, and are reported as (0,0), (0,1), (1,0).
C16_Witness ==
    /\ mode = "BcPairs"
    /\ ret.val.kind = "csv"
    /\ hist = <<1, 0, 0, 1>>
    /\ Len(ret.val.csv.rows) = 3
    /\ ret.val.csv.rows[1].o0 = 0 /\ ret.val.csv.rows[1].o1 = 0
    /\ ret.val.csv.rows[2].o0 = 0 /\ ret.val.csv.rows[2].o1 = 1
    /\ ret.val.csv.rows[3].o0 = 1 /\ ret.val.csv.rows[3].o1 = 0

\* The positions of the assignments of module m that bind n.
AssignsTo(m, n) == {i \in 1..Len(m.assigns) : m.assigns[i].name = n}

\* The value n is bound to when module m has run: that of the last
\* assignment to n.
FinalValue(m, n) ==
    IF AssignsTo(m, n) = {}
    THEN Unassigned
    ELSE m.assigns[CHOOSE i \in AssignsTo(m, n) : \A j \in AssignsTo(m, n) : j <= i].value

\* The iterable of m is an empty container: literally, or as the final value
\* of a module binding.
KnownEmpty(m) ==
    \/ m.iter \in {EmptyListLit, EmptyDictLit}
    \/ m.iter.kind = "Global" /\ FinalValue(m, m.iter.name) = "EmptyDict"

\* C17: a comprehension over an iterable known to be an empty container is
\* compiled to ListNew, Return: already by the first compilation when the
\* iterable is a literal, and by the finalization pass when it is a module
\* binding whose final value is empty; the two tests get the same
\* instructions.
C17_EmptyIterableElided ==
    /\ phase \in {"compiled", "frozen"} /\ module.iter \in {EmptyListLit, EmptyDictLit} =>
            instrs = <<"ListNew", "Return">>
    /\ phase = "frozen" /\ KnownEmpty(module) => instrs = <<"ListNew", "Return">>
    /\ phase = "frozen" /\ module = test_no_loop_if_top_collection_is_empty.module =>
            instrs = test_no_loop_if_top_collection_is_empty.instrs
    /\ phase = "frozen" /\ module = test_no_loop_if_top_collection_is_empty_on_freeze.module =>
            instrs = test_no_loop_if_top_collection_is_empty_on_freeze.instrs

\* `def test(): return [x for x in D]` with `D = {}`, frozen: the first
\* compilation had emitted the loop, the finalization removed it.
C17_Witness ==
    /\ phase = "frozen"
    /\ module = test_no_loop_if_top_collection_is_empty_on_freeze.module
    /\ globals["D"] = "EmptyDict"
    /\ compr = ComprEmpty
    /\ instrs = <<"ListNew", "Return">>

\* The single filter of m is true: literally, or as the final value of a
\* module binding.
KnownTrue(m) ==
    /\ Len(m.conds) = 1
    /\ \/ m.conds[1] = TrueLit
       \/ m.conds[1].kind = "Global" /\ FinalValue(m, m.conds[1].name) = "True"

LoopWithoutFilter ==
    <<"ListNew", "LoadLocal", "ForLoop", "StoreLocal", "LoadLocal",
      "ComprListAppend", "Continue", "Return">>

\* C18: a comprehension over a local with a single filter known to be true
\* is compiled to ListNew, LoadLocal, ForLoop, StoreLocal, LoadLocal,
\* ComprListAppend, Continue, Return, with no IfNotBr: already by the first
\* compilation when the filter is the literal True, and by the finalization
\* pass when it is a module binding whose final value is True; the two tests
\* get the same instructions.
C18_TrueFilterElided ==
    /\ phase \in {"compiled", "frozen"} /\ module.iter.kind = "Local"
            /\ module.conds = <<TrueLit>> => instrs = LoopWithoutFilter
    /\ phase = "frozen" /\ module.iter.kind = "Local" /\ KnownTrue(module) =>
            instrs = LoopWithoutFilter
    /\ phase = "frozen" /\ module = test_if_true_clause.module =>
            instrs = test_if_true_clause.instrs
    /\ phase = "frozen" /\ module = test_if_true_clause_on_freeze.module =>
            instrs = test_if_true_clause_on_freeze.instrs

\* `def test(y): return [x for x in y if C]` with `C = False`, `C = True`,
\* frozen.
C18_Witness ==
    /\ phase = "frozen"
    /\ module = test_if_true_clause_on_freeze.module
    /\ globals["C"] = "True"
    /\ instrs = LoopWithoutFilter
    /\ \A i \in 1..Len(instrs) : instrs[i] # "IfNotBr"

\* Parameter i binds a name that an earlier parameter binds.
RepeatsName(ps, i) ==
    /\ BindsName(ps[i])
    /\ \E j \in 1..(i - 1) : BindsName(ps[j]) /\ ps[j].name = ps[i].name

\* Some parameter before the i-th has a kind in `kinds`.
KindBefore(ps, i, kinds) == \E j \in 1..(i - 1) : ps[j].kind \in kinds

\* Parameter i is out of order after the parameters before it.
ViolatesOrdering(ps, i) ==
    CASE ps[i].kind = "Normal" -> KindBefore(ps, i, {"WithDefaultValue", "KWArgs"})
      [] ps[i].kind = "WithDefaultValue" -> KindBefore(ps, i, {"KWArgs"})
      [] ps[i].kind \in {"NoArgs", "Args"} -> KindBefore(ps, i, {"NoArgs", "Args", "KWArgs"})
      [] ps[i].kind = "KWArgs" -> KindBefore(ps, i, {"KWArgs"})

OrderingError(kind) ==
    CASE kind = "Normal" -> "PositionalThenNonPositional"
      [] kind = "WithDefaultValue" -> "DefaultParameterAfterStars"
      [] kind \in {"NoArgs", "Args"} -> "ArgsParameterAfterStars"
      [] kind = "KWArgs" -> "MultipleKwargs"

Offending(ps) == {i \in 1..Len(ps) : RepeatsName(ps, i) \/ ViolatesOrdering(ps, i)}

FirstOffending(ps) == CHOOSE i \in Offending(ps) : \A j \in Offending(ps) : i <= j

\* C20 as stated: when the first offending parameter both repeats a name and
\* is out of order, the error is DuplicateParameterName at that parameter.
C20_Original ==
    (/\ defRes # Pending
     /\ Offending(parameters) # {}
     /\ RepeatsName(parameters, FirstOffending(parameters))
     /\ ViolatesOrdering(parameters, FirstOffending(parameters)))
        => /\ defRes.err = "DuplicateParameterName"
           /\ defRes.at = FirstOffending(parameters)

\* C20 amended: the error is located at the first offending parameter; when
\* that parameter is out of order the error is the ordering error of its
\* kind, whether or not it also repeats a name; DuplicateParameterName is
\* returned only when it is in order and repeats a name.
C20_OrderingBeforeUniqueness ==
    (defRes # Pending /\ Offending(parameters) # {}) =>
        LET i == FirstOffending(parameters)
        IN  /\ ~defRes.ok
            /\ defRes.at = i
            /\ defRes.err = IF ViolatesOrdering(parameters, i)
                            THEN OrderingError(parameters[i].kind)
                            ELSE "DuplicateParameterName"

\* `a=1` followed by Normal `a`: the second parameter repeats the name and is
\* out of order, and the error is PositionalThenNonPositional.
C20_Witness ==
    /\ defRes # Pending
    /\ Len(parameters) = 2
    /\ parameters[1].kind = "WithDefaultValue"
    /\ parameters[2].kind = "Normal"
    /\ parameters[1].name = parameters[2].name
    /\ defRes.err = "PositionalThenNonPositional"
    /\ defRes.at = 2

\* The positions of the parameters of def that have a default value.
WithDefault(def) == {i \in 1..Len(def.params) : def.params[i].kind = "WithDefaultValue"}

\* The instructions of `written` before the last one.
Operands == SubSeq(written, 1, Len(written) - 1)

\* Where an expression stands in the def: parameters left to right, then the
\* return type.
Place(e) == IF e = 0 THEN Len(defc.params) + 1 ELSE e

\* C19: write_bc writes the instructions of the default-value expressions in
\* the order of the parameters, then those of the return-type expression,
\* then one InstrDef, the last instruction; its pops count is k + r for k
\* default values and r return types; the j-th parameter with a default
\* (from 0) holds index j, the return type holds index k, a parameter
\* without a default holds no index, and the indices are exactly 0..k+r-1.
C19_WriteBcOperands ==
    written # NotWritten =>
        LET k == Cardinality(WithDefault(defc))
            r == IF defc.return_type = NoExpr THEN 0 ELSE 1
            last == written[Len(written)]
            indices == {last.data.params[i].t : i \in WithDefault(defc)}
                          \cup (IF r = 1 THEN {last.data.return_type} ELSE {})
        IN  /\ last.op = "InstrDef"
            /\ \A i \in 1..Len(Operands) : Operands[i].op = "Expr"
            /\ \A i, j \in 1..Len(Operands) :
                  i < j =>
                      \/ Place(Operands[i].e) < Place(Operands[j].e)
                      \/ Operands[i].e = Operands[j].e /\ Operands[i].n < Operands[j].n
            /\ \A p \in WithDefault(defc) :
                  Cardinality({i \in 1..Len(Operands) : Operands[i].e = p})
                      = defc.params[p].t.size
            /\ Cardinality({i \in 1..Len(Operands) : Operands[i].e = 0})
                      = defc.return_type.size
            /\ last.pops = k + r
            /\ Len(last.data.params) = Len(defc.params)
            /\ \A p \in 1..Len(defc.params) :
                  /\ last.data.params[p].kind = defc.params[p].kind
                  /\ last.data.params[p].t =
                        IF p \in WithDefault(defc)
                        THEN Cardinality({q \in WithDefault(defc) : q < p})
                        ELSE NoIndex
            /\ last.data.return_type = IF r = 1 THEN k ELSE NoIndex
            /\ indices = 0..(k + r - 1)

\* `def f(a, b=.., c=..) -> ..` written: three operands, indices 0, 1 and 2.
C19_Witness ==
    /\ written # NotWritten
    /\ Len(defc.params) = 3
    /\ defc.params[1].kind = "Normal"
    /\ WithDefault(defc) = {2, 3}
    /\ defc.return_type # NoExpr
    /\ written[Len(written)].pops = 3
    /\ written[Len(written)].data.params[2].t = 0
    /\ written[Len(written)].data.params[3].t = 1
    /\ written[Len(written)].data.return_type = 2

\* The arguments 1..i of xs.
Prefix(xs, i) == SubSeq(xs, 1, i)

\* The lengths of the prefixes of xs that are not acceptable.
BadPrefixes(xs) == {i \in 1..Len(xs) : ~CallAcceptable(Prefix(xs, i))}

FirstBadPrefix(xs) == CHOOSE i \in BadPrefixes(xs) : \A j \in BadPrefixes(xs) : i <= j

\* Some argument before the i-th has a tag in `tags`.
TagBefore(xs, i, tags) == \E j \in 1..(i - 1) : xs[j].tag \in tags

\* The error fixed by the tag of the i-th argument.
CallErrorFor(xs, i) ==
    CASE xs[i].tag = "Positional" -> "PositionalThenNonPositional"
      [] xs[i].tag = "Named" ->
            IF TagBefore(xs, i, {"ArgsArray", "KWArgsDict"})
            THEN "NamedArgumentAfterStars"
            ELSE "RepeatedNamed"
      [] xs[i].tag = "ArgsArray" -> "ArgsArrayAfterArgsOrKwargs"
      [] xs[i].tag = "KWArgsDict" -> "MultipleKwargs"

\* C21: when check_call rejects, the error is at the smallest i whose prefix
\* is not acceptable, the arguments after i do not influence it, and its
\* kind follows from the tag of that argument: Positional gives
\* PositionalThenNonPositional; Named gives NamedArgumentAfterStars when an
\* ArgsArray or KWArgsDict precedes it and RepeatedNamed, located at the
\* name, otherwise; ArgsArray gives ArgsArrayAfterArgsOrKwargs; KWArgsDict
\* gives MultipleKwargs.
C21_CallErrorAtFirstBadPrefix ==
    (callRes # Pending /\ ~callRes.ok) =>
        LET i == FirstBadPrefix(args)
        IN  /\ BadPrefixes(args) # {}
            /\ callRes.at = i
            /\ callRes.err = CallErrorFor(args, i)
            /\ callRes.span = IF callRes.err = "RepeatedNamed" THEN "name" ELSE "arg"
            /\ callRes = check_call(callee, Prefix(args, i))

\* A Named argument that repeats a name and follows `*args`, with another
\* argument after it: NamedArgumentAfterStars at the Named argument.
C21_Witness ==
    /\ callRes # Pending
    /\ callRes.err = "NamedArgumentAfterStars"
    /\ callRes.at < Len(args)
    /\ \E j \in 1..(callRes.at - 1) :
            args[j].tag = "Named" /\ args[j].name = args[callRes.at].name

\* max(n, 0)
AtLeastZero(n) == IF n < 0 THEN 0 ELSE n

\* C22: mul with a negative integer n does not fail: it returns a tuple
\* without elements, as with n = 0, and leaves every tuple allocated before
\* unchanged; for every integer n the result has len(t) * max(n, 0)
\* elements.
C22_RepeatNegative ==
    [][(tupRes'.op = "mul" /\ tupRes'.other.ty = "int") =>
        LET a == tupRes'.self
            n == tupRes'.other.n
        IN  /\ tupRes'.r.ok
            /\ tupRes'.r.kind = "value"
            /\ \A k \in 1..Len(heap) : heap'[k] = heap[k]
            /\ heap'[tupRes'.r.n].len = heap[a].len * AtLeastZero(n)
            /\ Len(heap'[tupRes'.r.n].content) = heap'[tupRes'.r.n].len
            /\ n < 0 => heap'[tupRes'.r.n].content = <<>>]_vars

\* A tuple of two elements repeated -1 times: the result is empty.
C22_Witness ==
    /\ tupRes.op = "mul"
    /\ tupRes.other = IntValue(0 - 1)
    /\ tupRes.r.ok
    /\ heap[tupRes.self].len = 2
    /\ heap[tupRes.r.n].len = 0
    /\ heap[tupRes.r.n].content = <<>>

=============================================================================
